---- MODULE Spec2Model ----
(***************************************************************************)
(* A model of github.com/pbedat/expose: schema identifiers, required-field *)
(* analysis, schema reflection into a shared schema table with sub-schema  *)
(* extraction, endpoint discovery over an object graph (Struct), the       *)
(* assembly of the OpenAPI document (ReflectSpec), alone and in several    *)
(* passes over one template, the construction of the HTTP handler with its *)
(* request closure (NewHandler), Apply, error codes, walkSchema, and the   *)
(* traversal of an object graph step by step.                              *)
(*                                                                         *)
(* Strings are sequences of symbols.  A symbol is a TLA+ string that is    *)
(* never the concatenation of other symbols, so that concatenation and     *)
(* comparison of symbol sequences behave as they do for Go strings.        *)
(* Identifiers and type names use word symbols ("dup", "List", ".");       *)
(* method names, field names of the object graph and paths use single      *)
(* characters, because kebab-casing works on characters.                   *)
(***************************************************************************)
EXTENDS Integers, Sequences, FiniteSets, TLC

VARIABLES
    phase,        \* which component this behaviour exercises, and whether it ran
    nmType,       \* naming: the type whose identifier is asked for
    nmNamer,      \* naming: the SchemaIdentifier in use ("default" or "short")
    nmIds,        \* naming: results of the calls made so far, per call kind
    rqType,       \* required: the reflect.Type given to getRequiredProps
    rqProps,      \* required: the returned []string
    settings,     \* reflection: reflectSettings of the build
    options,      \* reflection: the customizers each WithSchemaCustomizers call gave
    schemas,      \* reflection: the schema table (openapi3.Schemas)
    pipeLog,      \* reflection: every customizer step executed so far
    calls,        \* reflection: the reflectSchema calls made so far
    stRoot,       \* discovery: the value given to Struct
    stBase,       \* discovery: the basePath given to Struct
    functions,    \* discovery: the []Function returned by Struct
    visits,       \* discovery: the struct nodes traverseStruct processed
    docFns,       \* document: the functions given to ReflectSpec
    docTemplate,  \* document: the caller's template document
    doc,          \* document: the openapi3.T returned by ReflectSpec
    docErr,       \* document: the error returned by ReflectSpec
    hSettings,    \* handler: handlerSettings after the options are applied
    hFns,         \* handler: the functions given to NewHandler
    handler,      \* handler: what NewHandler returned
    exchange,     \* handler: the last request served and its response
    wkRoot,       \* walk: the schema given to walkSchema
    wkVisitor,    \* walk: the nodes the visitor replaces and the node it fails at
    wkVisited,    \* walk: the nodes the visitor was called on, in order
    wkResult,     \* walk: the schema after the walk and the error returned
    passes,       \* passes: the documents the ReflectSpec calls so far returned
    apFn,         \* apply: the endpoint and its validate flag
    apSpec,       \* apply: the document given to Apply
    apCall,       \* apply: the steps of the last Apply call and what it returned
    stHeap,       \* traversal: the structs of the object graph, by address
    stStack       \* traversal: the traverseStruct calls in progress

vars == <<phase, nmType, nmNamer, nmIds, rqType, rqProps, settings, options, schemas,
          pipeLog, calls, stRoot, stBase, functions, visits, docFns, docTemplate,
          doc, docErr, hSettings, hFns, handler, exchange, wkRoot, wkVisitor,
          wkVisited, wkResult, passes, apFn, apSpec, apCall,
          stHeap, stStack>>

namingVars   == <<nmType, nmNamer, nmIds>>
requiredVars == <<rqType, rqProps>>
reflectVars  == <<settings, options, schemas, pipeLog, calls>>
structVars   == <<stRoot, stBase, functions, visits>>
docVars      == <<docFns, docTemplate, doc, docErr>>
handlerVars  == <<hSettings, hFns, handler, exchange>>
walkVars     == <<wkRoot, wkVisitor, wkVisited, wkResult>>
passVars     == <<passes>>
applyVars    == <<apFn, apSpec, apCall>>
graphVars    == <<stHeap, stStack>>

\* ------------------------------------------------------------------------
\* Bounds of the model
\* ------------------------------------------------------------------------
MaxWrap == 1        \* pointer/slice/map wrappers put around a naming input
MaxFields == 2      \* fields of a struct type given to getRequiredProps
MaxMethods == 2     \* methods of the struct given to Struct
MaxNodeFields == 2  \* fields of the struct given to Struct
MaxCalls == 2       \* reflectSchema calls into one schema table
MaxFns == 2         \* functions given to ReflectSpec
MaxOptions == 2     \* WithSchemaCustomizers calls before a build

\* ------------------------------------------------------------------------
\* Generic helpers
\* ------------------------------------------------------------------------
Range(s) == {s[i] : i \in DOMAIN s}

IsInjective(s) == \A i, j \in DOMAIN s : s[i] = s[j] => i = j

SeqsUpTo(S, n) == UNION {[1..k -> S] : k \in 0..n}

\* strings.ReplaceAll on symbol sequences, for a one-symbol pattern
ReplaceAll(s, old, new) == [i \in DOMAIN s |-> IF s[i] = old THEN new ELSE s[i]]

\* strings.TrimPrefix for a one-symbol prefix
TrimPrefix(s, p) == IF Len(s) > 0 /\ s[1] = p THEN Tail(s) ELSE s

\* strings.LastIndex for a one-symbol pattern, 1-based, 0 when absent
LastIndex(s, c) ==
    IF \E i \in DOMAIN s : s[i] = c
    THEN CHOOSE i \in DOMAIN s : s[i] = c /\ \A j \in DOMAIN s : s[j] = c => j <= i
    ELSE 0

\* strings.Cut for a one-symbol separator
Cut(s, sep) ==
    IF \E i \in DOMAIN s : s[i] = sep
    THEN LET i == CHOOSE k \in DOMAIN s : s[k] = sep /\ \A j \in 1..(k-1) : s[j] # sep
         IN [before |-> SubSeq(s, 1, i-1), after |-> SubSeq(s, i+1, Len(s)), found |-> TRUE]
    ELSE [before |-> s, after |-> <<>>, found |-> FALSE]

\* ------------------------------------------------------------------------
\* reflect.Type
\* ------------------------------------------------------------------------
BasicT(n) == [kind |-> n, pkgPath |-> <<>>, pkgName |-> <<>>, name |-> <<n>>]
NamedT(k, path, pkg, n) == [kind |-> k, pkgPath |-> path, pkgName |-> pkg, name |-> n]
StructT(path, pkg, n, fs) ==
    [kind |-> "struct", pkgPath |-> path, pkgName |-> pkg, name |-> n, fields |-> fs]
PtrT(t) == [kind |-> "ptr", elem |-> t]
SliceT(t) == [kind |-> "slice", elem |-> t]
MapT(t) == [kind |-> "map", elem |-> t]

\* a struct field; tag is the value of the json key of the struct tag, split
\* into its comma-free parts and "," symbols (<<>> when there is no json key)
Field(n, t, tag, anon) == [name |-> n, type |-> t, tag |-> tag, anonymous |-> anon]

IsComposite(t) == t.kind \in {"ptr", "slice", "map"}

\* reflect.Type.Name and PkgPath are empty for unnamed composite types
TypeName(t) == IF IsComposite(t) THEN <<>> ELSE t.name
TypePkgPath(t) == IF IsComposite(t) THEN <<>> ELSE t.pkgPath

RECURSIVE TypeString(_)
RECURSIVE FieldsString(_)
\* reflect.Type.String
TypeString(t) ==
    CASE t.kind = "ptr" -> <<"*">> \o TypeString(t.elem)
      [] t.kind = "slice" -> <<"[]">> \o TypeString(t.elem)
      [] t.kind = "map" -> <<"map[string]">> \o TypeString(t.elem)
      [] OTHER ->
            IF t.name # <<>>
            THEN (IF t.pkgName = <<>> THEN <<>> ELSE t.pkgName \o <<".">>) \o t.name
            ELSE <<"struct {">> \o FieldsString(t.fields) \o <<"}">>
FieldsString(fs) ==
    IF fs = <<>> THEN <<>>
    ELSE <<" ", Head(fs).name, " ">> \o TypeString(Head(fs).type)
            \o (IF Head(fs).tag = <<>> THEN <<>> ELSE <<" json:">> \o Head(fs).tag)
            \o <<";">> \o FieldsString(Tail(fs))

ExposePath == <<"github.com", "/", "pbedat", "/", "expose">>
ExposePkg == <<"expose">>

\* a nil reflect.Type
NoType == [kind |-> "none"]

IntT == BasicT("int")
StringT == BasicT("string")

\* ------------------------------------------------------------------------
\* Schema identifiers
\* ------------------------------------------------------------------------
\* DefaultSchemaIdentifier with pointers named instead of looked through
RECURSIVE DefaultSchemaIdentifierNoPtr(_)
DefaultSchemaIdentifierNoPtr(t) ==
    IF t.kind = "slice" THEN DefaultSchemaIdentifierNoPtr(t.elem) \o <<"List">>
    ELSE IF t.kind = "ptr" THEN <<"*">> \o DefaultSchemaIdentifierNoPtr(t.elem)
    ELSE (IF TypePkgPath(t) # <<>>
          THEN ReplaceAll(TypePkgPath(t), "/", ".") \o <<".">>
          ELSE <<>>) \o TypeName(t)

RECURSIVE DefaultSchemaIdentifier(_)
DefaultSchemaIdentifier(t) ==
    IF t.kind = "slice" THEN DefaultSchemaIdentifier(t.elem) \o <<"List">>
    ELSE IF t.kind = "ptr" THEN DefaultSchemaIdentifier(t.elem)
    ELSE (IF TypePkgPath(t) # <<>>
          THEN ReplaceAll(TypePkgPath(t), "/", ".") \o <<".">>
          ELSE <<>>) \o TypeName(t)

RECURSIVE ShortSchemaIdentifier(_)
ShortSchemaIdentifier(t) ==
    IF t.kind = "slice" THEN ShortSchemaIdentifier(t.elem) \o <<"List">>
    ELSE IF t.kind = "ptr" THEN ShortSchemaIdentifier(t.elem)
    ELSE TypeString(t)

\* settings.typeNamer(t)
typeNamer(namer, t) ==
    IF namer = "short" THEN ShortSchemaIdentifier(t) ELSE DefaultSchemaIdentifier(t)

\* ------------------------------------------------------------------------
\* Required-field analysis
\* ------------------------------------------------------------------------
\* requiredOfField with the json name ignored: always the declared name
requiredOfFieldDeclaredName(f) ==
    IF f.tag = <<>> THEN <<f.name>>
    ELSE LET c == Cut(f.tag, ",")
         IN IF c.after = <<"omitempty">> THEN <<>> ELSE <<f.name>>

\* the body of the loop of getRequiredProps for a field that is not embedded
requiredOfField(f) ==
    IF f.tag = <<>> THEN <<f.name>>
    ELSE LET c == Cut(f.tag, ",")
             name0 == IF c.found THEN c.before ELSE f.tag
             name == IF name0 = <<>> THEN f.name ELSE name0[1]
         IN IF c.after = <<"omitempty">> THEN <<>>
            ELSE IF name = "-" THEN <<>>
            ELSE <<name>>

RECURSIVE getRequiredProps(_)
RECURSIVE requiredLoop(_, _)
getRequiredProps(t) ==
    IF t.kind = "ptr" THEN getRequiredProps(t.elem)
    ELSE IF t.kind # "struct" THEN <<>>
    ELSE requiredLoop(t.fields, <<>>)
requiredLoop(fs, props) ==
    IF fs = <<>> THEN props
    ELSE LET f == Head(fs) IN
         requiredLoop(Tail(fs),
             props \o (IF f.anonymous THEN getRequiredProps(f.type)
                       ELSE requiredOfField(f)))


\* ------------------------------------------------------------------------
\* Schemas (openapi3.SchemaRef, openapi3.Schema)
\* ------------------------------------------------------------------------
NilSchema == [nilSchema |-> TRUE]       \* SchemaRef.Value == nil
NilRef == [nilRef |-> TRUE]             \* a nil *SchemaRef
NoError == <<>>

NewSchemaRef(ref, value) == [ref |-> ref, value |-> value]

\* openapi3.Schema; extensions maps "$id" to the pending identifier
NewSchema(type) ==
    [type |-> type, properties |-> <<>>, items |-> NilRef, additional |-> NilRef,
     allOf |-> <<>>, anyOf |-> <<>>, oneOf |-> <<>>, required |-> <<>>, extensions |-> <<>>]

RefPrefix == <<"#/components/schemas/">>

\* the names that start with a lower-case letter
LowerFirstNames == {"hidden", "bar", "baz", "inner"}

\* the types that implement SchemaProvider
customT == StructT(ExposePath, ExposePkg, <<"custom">>, <<>>)
\* a SchemaProvider whose JSONSchema returns an error
brokenT == StructT(ExposePath, ExposePkg, <<"broken">>, <<>>)
ProviderTypes == {customT, brokenT}

\* ------------------------------------------------------------------------
\* jsoninfo.GetTypeInfo(t).Fields as openapi3gen reads them
\* ------------------------------------------------------------------------
RECURSIVE AppendFields(_, _)
AppendFields(fs, viaEmbedded) ==
    IF fs = <<>> THEN <<>>
    ELSE LET f == Head(fs)
             parts == Cut(f.tag, ",")
             ft == IF f.type.kind = "ptr" THEN f.type.elem ELSE f.type
             info == [jsonName |-> IF f.tag # <<>> /\ parts.before # <<>> THEN parts.before[1] ELSE f.name,
                      type |-> f.type, tag |-> f.tag, hasJSONTag |-> f.tag # <<>>,
                      viaEmbedded |-> viaEmbedded]
         IN (IF f.anonymous /\ f.tag = <<"-">> THEN <<>>
             ELSE IF f.anonymous /\ f.tag = <<>>
                  THEN (IF ft.kind = "struct" THEN AppendFields(ft.fields, TRUE) ELSE <<>>)
             ELSE IF f.type.kind \in {"func", "chan"} THEN <<>>
             ELSE IF f.name \in LowerFirstNames THEN <<>>
             ELSE IF f.tag = <<"-">> THEN <<>>
             ELSE <<info>>) \o AppendFields(Tail(fs), viaEmbedded)

\* ------------------------------------------------------------------------
\* The customizer pipeline
\* ------------------------------------------------------------------------
\* the SchemaMapper of the settings: "unset" is a nil func, "none" returns nil
\* for every type, "dupString" maps dup to a string schema, "brokenString"
\* maps broken to a string schema
mapperResult(mapper, t) ==
    IF mapper = "dupString" /\ t.kind = "struct" /\ t.name = <<"dup">>
    THEN NewSchema("string")
    ELSE IF mapper = "brokenString" /\ t = brokenT THEN NewSchema("string")
    ELSE NilSchema

\* setID(mainType, namer)
setID(mainType, namer, t, schema) ==
    LET mainStructType == IF mainType.kind = "ptr" THEN mainType.elem ELSE mainType
    IN [schema |-> IF t # mainStructType /\ t.kind = "struct"
                   THEN [schema EXCEPT !.extensions = ("$id" :> (<<"#">> \o typeNamer(namer, t))) @@ @]
                   ELSE schema,
        stop |-> FALSE, err |-> NoError, log |-> <<>>]

\* tryMap that replaces the schema and lets the later pipes run
tryMapNoStop(mapper, t, schema) ==
    IF mapper = "unset" THEN [schema |-> schema, stop |-> FALSE, err |-> NoError, log |-> <<>>]
    ELSE [schema |-> IF mapperResult(mapper, t) # NilSchema THEN mapperResult(mapper, t) ELSE schema,
          stop |-> FALSE, err |-> NoError,
          log |-> <<[step |-> "mapper", t |-> t]>>]

\* tryMap(mapper)
tryMap(mapper, t, schema) ==
    IF mapper = "unset" THEN [schema |-> schema, stop |-> FALSE, err |-> NoError, log |-> <<>>]
    ELSE LET m == mapperResult(mapper, t)
         IN [schema |-> IF m # NilSchema THEN m ELSE schema,
             stop |-> m # NilSchema, err |-> NoError,
             log |-> <<[step |-> "mapper", t |-> t]>>]

\* useCutomType(gen, schemas): custom.JSONSchema returns a string schema,
\* broken.JSONSchema an error
useCutomType(t, schema) ==
    IF t = brokenT
    THEN [schema |-> schema, stop |-> TRUE,
          err |-> <<"failed to generate custom schema for ">> \o t.name \o <<": ", "broken">>,
          log |-> <<>>]
    ELSE IF t \in ProviderTypes
    THEN [schema |-> NewSchema("string"), stop |-> TRUE, err |-> NoError, log |-> <<>>]
    ELSE [schema |-> schema, stop |-> FALSE, err |-> NoError, log |-> <<>>]

\* markPropertiesRequired()
markPropertiesRequired(t, schema) ==
    [schema |-> [schema EXCEPT !.required = @ \o getRequiredProps(t)],
     stop |-> FALSE, err |-> NoError, log |-> <<>>]

\* the SchemaCustomizers a caller registers: "note" looks at the schema and
\* goes on, "stopDup" returns stop = true for the type dup, "failDup" returns
\* an error for the type dup
customizer(pipe, t, schema) ==
    [schema |-> schema,
     stop |-> pipe = "stopDup" /\ t.kind = "struct" /\ t.name = <<"dup">>,
     err |-> IF pipe = "failDup" /\ t.kind = "struct" /\ t.name = <<"dup">>
             THEN <<"no dup">> ELSE NoError,
     log |-> <<>>]

\* one SchemaCustomizer of the pipes of reflectSchema
runPipe(pipe, cfg, t, schema) ==
    CASE pipe = "setID" -> setID(cfg.mainType, cfg.settings.typeNamer, t, schema)
      [] pipe = "tryMap" -> tryMap(cfg.settings.mapper, t, schema)
      [] pipe = "useCutomType" -> useCutomType(t, schema)
      [] pipe = "markPropertiesRequired" -> markPropertiesRequired(t, schema)
      [] OTHER -> customizer(pipe, t, schema)

\* reflectSchema with the caller's customizers placed after the mapper
pipesOfMapperFirst(cfg) ==
    <<"setID", "tryMap">> \o cfg.settings.customizers
        \o <<"useCutomType", "markPropertiesRequired">>

\* WithSchemaCustomizers(customizers...) applied to the settings s
WithSchemaCustomizers(s, customizers) == [s EXCEPT !.customizers = @ \o customizers]

\* the pipes reflectSchema composes
pipesOf(cfg) ==
    <<"setID">> \o cfg.settings.customizers
        \o <<"tryMap", "useCutomType", "markPropertiesRequired">>

\* newCustomizerFlow(pipes...): run the pipes until an error or stop
RECURSIVE newCustomizerFlow(_, _, _, _, _)

\* the flow once the first of pipes returned r
afterPipe(pipes, cfg, t, log, r) ==
    IF r.err # NoError
    THEN [schema |-> r.schema, err |-> r.err,
          log |-> Append(log, [step |-> Head(pipes), t |-> t]) \o r.log]
    ELSE IF r.stop
    THEN [schema |-> r.schema, err |-> NoError,
          log |-> Append(log, [step |-> Head(pipes), t |-> t]) \o r.log]
    ELSE newCustomizerFlow(Tail(pipes), cfg, t, r.schema,
                           Append(log, [step |-> Head(pipes), t |-> t]) \o r.log)

newCustomizerFlow(pipes, cfg, t, schema, log) ==
    IF pipes = <<>> THEN [schema |-> schema, err |-> NoError, log |-> log]
    ELSE afterPipe(pipes, cfg, t, log, runPipe(Head(pipes), cfg, t, schema))

\* ------------------------------------------------------------------------
\* openapi3gen.Generator with UseAllExportedFields and a SchemaCustomizer
\* ------------------------------------------------------------------------
BasicSchemaType(kind) ==
    CASE kind = "int" -> "integer"
      [] kind = "string" -> "string"
      [] kind = "bool" -> "boolean"
      [] OTHER -> ""

\* generateWithoutSaving: the schema of t, the customizer applied to every
\* schema once its fields, items or map values are generated
RECURSIVE generateSchemaRefFor(_, _, _)
RECURSIVE generateFields(_, _, _, _)

\* the schema reference made of the schema the customizer returned as c
customizedRef(c) ==
    IF c.err # NoError THEN [ref |-> NilRef, err |-> c.err, log |-> c.log]
    ELSE [ref |-> NewSchemaRef(<<>>, c.schema), err |-> NoError, log |-> c.log]

\* the customizer applied to the schema built for t
customize(cfg, t, built) ==
    IF built.err # NoError THEN [ref |-> NilRef, err |-> built.err, log |-> built.log]
    ELSE customizedRef(newCustomizerFlow(pipesOf(cfg), cfg, t, built.schema, built.log))

\* the array schema of a slice whose element type gave items
arrayOf(items) ==
    [schema |-> [NewSchema("array") EXCEPT !.items = items.ref],
     err |-> items.err, log |-> items.log]

\* the object schema of a map whose value type gave values
mapOf(values) ==
    [schema |-> [NewSchema("object") EXCEPT !.additional = values.ref],
     err |-> values.err, log |-> values.log]

generateSchemaRefFor(cfg, t, log) ==
    IF t.kind = "ptr" THEN generateSchemaRefFor(cfg, t.elem, log)
    ELSE IF t.kind \in {"func", "chan"} THEN [ref |-> NilRef, err |-> NoError, log |-> log]
    ELSE customize(cfg, t,
            CASE t.kind = "slice" -> arrayOf(generateSchemaRefFor(cfg, t.elem, log))
              [] t.kind = "map" -> mapOf(generateSchemaRefFor(cfg, t.elem, log))
              [] t.kind = "struct" ->
                    generateFields(cfg, AppendFields(t.fields, FALSE), NewSchema(""), log)
              [] OTHER ->
                    [schema |-> NewSchema(BasicSchemaType(t.kind)), err |-> NoError, log |-> log])

\* the property of the first of infos added to schema, and the other fields
addProperty(cfg, infos, schema, ref) ==
    IF ref.err # NoError THEN [schema |-> schema, err |-> ref.err, log |-> ref.log]
    ELSE generateFields(cfg, Tail(infos),
            IF ref.ref # NilRef
            THEN [schema EXCEPT !.properties = (Head(infos).jsonName :> ref.ref) @@ @]
            ELSE schema,
            ref.log)

\* the generation of a field's schema after a first generation gave first
generateAfter(cfg, info, first) ==
    IF first.err # NoError THEN first
    ELSE generateSchemaRefFor(cfg, info.type, first.log)

\* an untagged field reached through an embedded struct is generated twice
generateFields(cfg, infos, schema, log) ==
    IF infos = <<>>
    THEN [schema |-> IF DOMAIN schema.properties # {} THEN [schema EXCEPT !.type = "object"] ELSE schema,
          err |-> NoError, log |-> log]
    ELSE addProperty(cfg, infos, schema,
            generateAfter(cfg, Head(infos),
                IF ~Head(infos).hasJSONTag /\ Head(infos).viaEmbedded
                THEN generateSchemaRefFor(cfg, Head(infos).type, log)
                ELSE [ref |-> NilRef, err |-> NoError, log |-> log]))

\* ------------------------------------------------------------------------
\* walkSchema and extractSubSchemas
\* ------------------------------------------------------------------------
RECURSIVE SetToSeq(_)
SetToSeq(S) == IF S = {} THEN <<>> ELSE LET x == CHOOSE y \in S : TRUE IN <<x>> \o SetToSeq(S \ {x})

Reverse(s) == [i \in DOMAIN s |-> s[Len(s) + 1 - i]]

\* the order in which a range over the map Properties yields its keys
PropertyOrder(props, reversed) ==
    IF reversed THEN Reverse(SetToSeq(DOMAIN props)) ELSE SetToSeq(DOMAIN props)

\* extractSubSchemas that registers a stamped node and leaves it inline
extractSubSchemasKeepInline(ref, table) ==
    IF ref.value = NilSchema THEN [repl |-> NilRef, err |-> NoError, table |-> table]
    ELSE IF "$id" \notin DOMAIN ref.value.extensions
         THEN [repl |-> NilRef, err |-> NoError, table |-> table]
    ELSE LET id == TrimPrefix(ref.value.extensions["$id"], "#")
         IN IF id \in DOMAIN table
            THEN [repl |-> NilRef, err |-> NoError, table |-> table]
            ELSE [repl |-> NilRef, err |-> NoError, table |-> (id :> ref) @@ table]

\* the visitor extractSubSchemas(schemas) applied to ref
extractSubSchemas(ref, table) ==
    IF ref.value = NilSchema THEN [repl |-> NilRef, err |-> NoError, table |-> table]
    ELSE IF "$id" \notin DOMAIN ref.value.extensions
         THEN [repl |-> NilRef, err |-> NoError, table |-> table]
    ELSE LET id == TrimPrefix(ref.value.extensions["$id"], "#")
         IN IF id \in DOMAIN table
            THEN [repl |-> NewSchemaRef(RefPrefix \o id, NilSchema), err |-> NoError, table |-> table]
            ELSE [repl |-> NewSchemaRef(RefPrefix \o id, NilSchema), err |-> NoError,
                  table |-> (id :> ref) @@ table]

\* what the visitor returned as r, with the state of its closure: schemas for
\* extractSubSchemas(schemas)
extractedBy(vs, r) ==
    [repl |-> r.repl, err |-> r.err, table |-> [vs EXCEPT !.schemas = r.table]]

\* the $id of a node, as the visitors of TestWalkSchema read it
idOf(ref) == IF ref.value = NilSchema THEN "nil" ELSE ref.value.extensions["$id"]

\* a visitor as TestWalkSchema passes them: it notes the node, fails at the
\* nodes of failAt and returns a reference for the nodes of replace
testVisitor(ref, vs) ==
    [repl |-> IF idOf(ref) \notin vs.failAt /\ idOf(ref) \in vs.replace
              THEN NewSchemaRef(RefPrefix \o <<idOf(ref)>>, NilSchema) ELSE NilRef,
     err |-> IF idOf(ref) \in vs.failAt THEN <<"test">> ELSE NoError,
     table |-> [vs EXCEPT !.visited = Append(@, idOf(ref))]]

\* visitor(ref): vs is the state of the visitor's closure
visitor(ref, vs) ==
    IF vs.visitor = "extractSubSchemas"
    THEN extractedBy(vs, extractSubSchemas(ref, vs.schemas))
    ELSE testVisitor(ref, vs)

\* walkSchema(ref, visitor): the node as the walk leaves it, the state of the
\* visitor's closure (table), and the error returned.  The steps of the walk
\* pass on st: the schema s with its children as walked so far, the state of
\* the visitor and the error.
RECURSIVE walkSchema(_, _, _)
RECURSIVE walkList(_, _, _, _)
RECURSIVE walkProperties(_, _, _, _)

\* a child list of s after its walk w
walkedList(st, key, w) ==
    [node |-> [st.node EXCEPT ![key] = w.list], table |-> w.table, err |-> w.err]

\* the loop over s.AllOf, s.AnyOf or s.OneOf
walkChildList(st, key, reversed) ==
    IF st.err # NoError THEN st
    ELSE walkedList(st, key, walkList(st.node[key], 1, st.table, reversed))

\* s.Items after its walk w
walkedItems(st, w) ==
    [node |-> [st.node EXCEPT !.items = w.ref], table |-> w.table,
     err |-> IF w.err # NoError THEN <<"items: ">> \o w.err ELSE NoError]

\* a walk that leaves out s.Items
walkItemsNever(st, reversed) == st

walkItems(st, reversed) ==
    IF st.err # NoError \/ st.node.items = NilRef THEN st
    ELSE walkedItems(st, walkSchema(st.node.items, st.table, reversed))

\* s.Properties after their walk w
walkedProperties(st, w) ==
    [node |-> [st.node EXCEPT !.properties = w.props], table |-> w.table, err |-> w.err]

walkChildProperties(st, reversed) ==
    IF st.err # NoError THEN st
    ELSE walkedProperties(st, walkProperties(st.node.properties,
                                  PropertyOrder(st.node.properties, reversed),
                                  st.table, reversed))

\* *ref = *replacedRef when the visitor returned v
replaceRef(walked, v) ==
    IF v.err # NoError THEN [ref |-> walked, table |-> v.table, err |-> v.err]
    ELSE [ref |-> IF v.repl # NilRef THEN v.repl ELSE walked, table |-> v.table, err |-> NoError]

\* the visitor called on the node once its children are walked
visitWalked(walked, st) ==
    IF st.err # NoError THEN [ref |-> walked, table |-> st.table, err |-> st.err]
    ELSE replaceRef(walked, visitor(walked, st.table))

walkChildren(ref, st) == visitWalked([ref EXCEPT !.value = st.node], st)

walkSchema(ref, table, reversed) ==
    IF ref.value = NilSchema THEN [ref |-> ref, table |-> table, err |-> NoError]
    ELSE walkChildren(ref,
            walkChildProperties(
                walkItems(
                    walkChildList(
                        walkChildList(
                            walkChildList([node |-> ref.value, table |-> table, err |-> NoError],
                                          "allOf", reversed),
                            "anyOf", reversed),
                        "oneOf", reversed),
                    reversed),
                reversed))

\* list[k] after its walk w, and the rest of the list
walkedElement(list, k, w, reversed) ==
    IF w.err # NoError
    THEN [list |-> [list EXCEPT ![k] = w.ref], table |-> w.table, err |-> <<"allOf: ">> \o w.err]
    ELSE walkList([list EXCEPT ![k] = w.ref], k + 1, w.table, reversed)

walkList(list, k, table, reversed) ==
    IF k > Len(list) THEN [list |-> list, table |-> table, err |-> NoError]
    ELSE IF list[k].value = NilSchema THEN walkList(list, k + 1, table, reversed)
    ELSE walkedElement(list, k, walkSchema(list[k], table, reversed), reversed)

\* the property names[1] after its walk w, and the rest of the properties
walkedProperty(props, names, w, reversed) ==
    IF w.err # NoError
    THEN [props |-> [props EXCEPT ![Head(names)] = w.ref], table |-> w.table,
          err |-> <<"prop ", Head(names), ": ">> \o w.err]
    ELSE walkProperties([props EXCEPT ![Head(names)] = w.ref], Tail(names), w.table, reversed)

walkProperties(props, names, table, reversed) ==
    IF names = <<>> THEN [props |-> props, table |-> table, err |-> NoError]
    ELSE IF props[Head(names)].value = NilSchema
         THEN walkProperties(props, Tail(names), table, reversed)
    ELSE walkedProperty(props, names, walkSchema(props[Head(names)], table, reversed), reversed)

\* ------------------------------------------------------------------------
\* reflectSchema
\* ------------------------------------------------------------------------
\* fail(err) of reflectSchema
failReflectSchema(t, err) == <<"failed to reflect schema ">> \o TypeString(t) \o <<"; ">> \o err

\* what reflectSchema returns once the walk of the root returned w; schemas[id]
\* is the root the walk changes in place
extracted(t, id, g, w) ==
    IF w.err # NoError
    THEN [ref |-> NilRef, err |-> failReflectSchema(t, w.err),
          table |-> [w.table.schemas EXCEPT ![id] = w.ref], log |-> g.log, panic |-> FALSE]
    ELSE [ref |-> NewSchemaRef(RefPrefix \o id, NilSchema), err |-> NoError,
          table |-> [w.table.schemas EXCEPT ![id] = w.ref], log |-> g.log, panic |-> FALSE]

\* reflectSchema once NewSchemaRefForValue returned g: register the root under
\* id, extract the sub schemas
registerSchema(t, id, table, cfgSettings, g, reversed) ==
    IF g.err # NoError
    THEN [ref |-> NilRef, err |-> failReflectSchema(t, g.err),
          table |-> table, log |-> g.log, panic |-> FALSE]
    ELSE IF g.ref = NilRef
    THEN \* ref.Value of a nil ref: nil pointer dereference
         [ref |-> NilRef, err |-> NoError, table |-> (id :> NilRef) @@ table,
          log |-> g.log, panic |-> ~cfgSettings.skipExtractSubSchemas]
    ELSE IF cfgSettings.skipExtractSubSchemas \/ g.ref.value = NilSchema
    THEN [ref |-> NewSchemaRef(RefPrefix \o id, NilSchema), err |-> NoError,
          table |-> (id :> g.ref) @@ table, log |-> g.log, panic |-> FALSE]
    ELSE extracted(t, id, g,
            walkSchema(g.ref,
                       [visitor |-> "extractSubSchemas", schemas |-> (id :> g.ref) @@ table],
                       reversed))

\* the body of reflectSchema after the lookup of the identifier
buildSchema(t, id, table, cfgSettings, log, reversed) ==
    registerSchema(t, id, table, cfgSettings,
                   generateSchemaRefFor([settings |-> cfgSettings, mainType |-> t], t, log),
                   reversed)

\* reflectSchema without the lookup: every call builds
reflectSchemaAlwaysBuild(t, table, cfgSettings, log, reversed) ==
    buildSchema(t, typeNamer(cfgSettings.typeNamer, t), table, cfgSettings, log, reversed)

\* reflectSchema(val, schemas, settings) for a value of type t
reflectSchema(t, table, cfgSettings, log, reversed) ==
    LET id == typeNamer(cfgSettings.typeNamer, t)
    IN IF id \in DOMAIN table
       THEN [ref |-> NewSchemaRef(RefPrefix \o id, NilSchema), err |-> NoError,
             table |-> table, log |-> log, panic |-> FALSE]
       ELSE buildSchema(t, id, table, cfgSettings, log, reversed)

\* ------------------------------------------------------------------------
\* Characters and kebab-casing (strcase.ToKebab)
\* ------------------------------------------------------------------------
UpperChars == <<"A", "B", "C", "D", "E", "F", "G", "H", "I", "J", "K", "L", "M",
                "N", "O", "P", "Q", "R", "S", "T", "U", "V", "W", "X", "Y", "Z">>
LowerChars == <<"a", "b", "c", "d", "e", "f", "g", "h", "i", "j", "k", "l", "m",
                "n", "o", "p", "q", "r", "s", "t", "u", "v", "w", "x", "y", "z">>
DigitChars == {"0", "1", "2", "3", "4", "5", "6", "7", "8", "9"}

IsCap(c) == c \in Range(UpperChars)
IsLow(c) == c \in Range(LowerChars)
IsNum(c) == c \in DigitChars
ToLowerChar(c) ==
    IF IsCap(c) THEN LowerChars[CHOOSE i \in DOMAIN UpperChars : UpperChars[i] = c] ELSE c

\* strcase.ToKebab(s) = ToScreamingDelimited(s, '-', "", false): what the loop
\* writes for the character at position i
kebabAt(s, i) ==
    LET v == s[i]
        hasNext == i < Len(s)
        next == IF hasNext THEN s[i + 1] ELSE ""
        changed == hasNext /\ \/ IsCap(v) /\ (IsLow(next) \/ IsNum(next))
                              \/ IsLow(v) /\ (IsCap(next) \/ IsNum(next))
                              \/ IsNum(v) /\ (IsCap(next) \/ IsLow(next))
    IN IF changed
       THEN (IF IsCap(v) /\ IsLow(next) /\ i > 1 /\ IsCap(s[i - 1]) THEN <<"-">> ELSE <<>>)
                \o <<ToLowerChar(v)>>
                \o (IF IsLow(v) \/ IsNum(v) \/ IsNum(next) THEN <<"-">> ELSE <<>>)
       ELSE IF v \in {" ", "_", "-", "."} THEN <<"-">>
       ELSE <<ToLowerChar(v)>>

RECURSIVE kebabFrom(_, _)
kebabFrom(s, i) == IF i > Len(s) THEN <<>> ELSE kebabAt(s, i) \o kebabFrom(s, i + 1)

ToKebab(s) == kebabFrom(s, 1)

\* reflect: a name is exported when it starts with an upper-case letter
IsExported(name) == name # <<>> /\ IsCap(name[1])

\* ------------------------------------------------------------------------
\* Endpoint discovery: Struct and traverseStruct
\* ------------------------------------------------------------------------
\* a method: numIn and numOut are those of the bound method value (the
\* receiver is not counted); ctxFirst says whether In(0) implements
\* context.Context, errLast whether the last result implements error; in1 is
\* In(1), a string, and out0 is Out(0) of two results, an int
Method(n, recv, numIn, numOut, ctxFirst, errLast) ==
    [name |-> n, recv |-> recv, numIn |-> numIn, numOut |-> numOut,
     ctxFirst |-> ctxFirst, errLast |-> errLast,
     in1 |-> IF numIn >= 2 THEN StringT ELSE NoType,
     out0 |-> IF numOut = 2 THEN IntT ELSE NoType]

\* reflect.Value: structs carry the methods of their type in name order
StructV(ms, fs) == [kind |-> "struct", methods |-> ms, fields |-> fs]
PtrV(v) == [kind |-> "ptr", nil |-> FALSE, elem |-> v]
NilPtrV == [kind |-> "ptr", nil |-> TRUE]
IfaceV(v) == [kind |-> "interface", nil |-> FALSE, elem |-> v]
NilIfaceV == [kind |-> "interface", nil |-> TRUE]
IntV == [kind |-> "int"]
FieldV(n, v) == [name |-> n, value |-> v]

\* reflect.Value.NumMethod/Method: the exported methods of the method set, in
\* name order; the method set of a pointer holds the methods of both receivers
MethodSet(v, ofPointer) ==
    LET In(m) == IsExported(m.name) /\ (ofPointer \/ m.recv = "value")
    IN SelectSeq(v.methods, In)

isExposableMethod(m) ==
    /\ ~(m.numIn < 1 \/ m.numOut < 1 \/ m.numOut > 2)
    /\ m.ctxFirst
    /\ ~(m.numOut = 2 /\ ~m.errLast)
    /\ ~(m.numOut = 1 /\ ~m.errLast)

\* getExposableMethods: the methods of the value, then those of its address
\* that were not found on the value
getExposableMethods(v, canAddr) ==
    LET Ok(m) == IsExported(m.name) /\ isExposableMethod(m)
        onValue == SelectSeq(MethodSet(v, FALSE), Ok)
        New(m) == (\A k \in DOMAIN onValue : onValue[k].name # m.name) /\ Ok(m)
    IN IF v.kind # "ptr" /\ canAddr
       THEN onValue \o SelectSeq(MethodSet(v, TRUE), New)
       ELSE onValue

NoFunction == [nil |-> TRUE]

\* createTypedFunc: the structFunctionDefinition; at is the index of the visit
\* of traverseStruct that registered it
createTypedFunc(path, m, reqType, resType, isNullary, isVoid, at) ==
    [def |-> "struct", name |-> m.name, path |-> path, reqType |-> reqType,
     resType |-> resType, isNullary |-> isNullary, isVoid |-> isVoid, at |-> at]

createFunction(path, m, at) ==
    IF m.numIn < 1 \/ m.numOut < 1 \/ m.numOut > 2 THEN NoFunction
    ELSE IF ~m.ctxFirst THEN NoFunction
    ELSE IF m.numOut = 2 /\ ~m.errLast THEN NoFunction
    ELSE IF m.numIn = 2 /\ m.numOut = 2 THEN createTypedFunc(path, m, m.in1, m.out0, FALSE, FALSE, at)
    ELSE IF m.numIn = 2 /\ m.numOut = 1 THEN createTypedFunc(path, m, m.in1, NoType, FALSE, TRUE, at)
    ELSE IF m.numIn = 1 /\ m.numOut = 2 THEN createTypedFunc(path, m, NoType, m.out0, TRUE, FALSE, at)
    ELSE IF m.numIn = 1 /\ m.numOut = 1 THEN createTypedFunc(path, m, NoType, NoType, TRUE, TRUE, at)
    ELSE NoFunction

\* the registration of the methods found at a node: one function at the path
\* for a single method, one per method at path/kebab(name) for several
RECURSIVE registerEach(_, _, _, _)
registerEach(path, methods, at, fns) ==
    IF methods = <<>> THEN fns
    ELSE LET fn == createFunction(path \o <<"/">> \o ToKebab(Head(methods).name), Head(methods), at)
         IN registerEach(path, Tail(methods), at,
                         IF fn # NoFunction THEN Append(fns, fn) ELSE fns)

registerMethods(path, methods, at, fns) ==
    IF Len(methods) = 1
    THEN LET fn == createFunction(path, methods[1], at)
         IN IF fn # NoFunction THEN Append(fns, fn) ELSE fns
    ELSE IF Len(methods) > 1 THEN registerEach(path, methods, at, fns)
    ELSE fns

\* the path traverseStruct gives to a field, without kebab-casing
fieldPathPlain(path, name) == path \o <<"/">> \o name

\* the path traverseStruct gives to a field of the node at path
fieldPath(path, name) == path \o <<"/">> \o ToKebab(name)

\* traverseStruct(path, v, functions, opts); acc holds the functions appended
\* so far and the struct nodes processed so far
RECURSIVE traverseStruct(_, _, _, _)
RECURSIVE traverseFields(_, _, _, _, _)
traverseStruct(path, v0, canAddr0, acc) ==
    IF v0.kind = "ptr" /\ v0.nil THEN acc
    ELSE LET v == IF v0.kind = "ptr" THEN v0.elem ELSE v0
             canAddr == IF v0.kind = "ptr" THEN TRUE ELSE canAddr0
         IN IF v.kind = "interface"
            THEN (IF v.nil THEN acc ELSE traverseStruct(path, v.elem, FALSE, acc))
            ELSE IF v.kind # "struct" THEN acc
            ELSE LET methods == getExposableMethods(v, canAddr)
                     at == Len(acc.visits) + 1
                     visit == [path |-> path, node |-> v, canAddr |-> canAddr,
                               found |-> [k \in DOMAIN methods |-> methods[k].name]]
                     acc1 == [fns |-> registerMethods(path, methods, at, acc.fns),
                              visits |-> Append(acc.visits, visit)]
                 IN traverseFields(path, v, canAddr, 1, acc1)
traverseFields(path, v, canAddr, i, acc) ==
    IF i > Len(v.fields) THEN acc
    ELSE LET field == v.fields[i]
         IN traverseFields(path, v, canAddr, i + 1,
                IF ~IsExported(field.name) THEN acc
                ELSE traverseStruct(fieldPath(path, field.name), field.value, canAddr, acc))

\* Struct(basePath, v): reflect.ValueOf(v) is not addressable
Struct(basePath, v) == traverseStruct(basePath, v, FALSE, [fns |-> <<>>, visits |-> <<>>])

\* ------------------------------------------------------------------------
\* Functions (Func, functionDefinition, structFunctionDefinition)
\* ------------------------------------------------------------------------
voidT == StructT(ExposePath, ExposePkg, <<"Void">>, <<>>)

\* Func[TReq, TRes](mountpoint, fn): the name is what follows the last "/"
Func(mountpoint, reqType, resType) ==
    [def |-> "func",
     name |-> SubSeq(mountpoint, LastIndex(mountpoint, "/") + 1, Len(mountpoint)),
     path |-> mountpoint, reqType |-> reqType, resType |-> resType]

\* Function.Req: the type of the value returned
Req(fn) ==
    IF fn.def = "struct" /\ (fn.isNullary \/ fn.reqType = NoType) THEN voidT ELSE fn.reqType

\* Function.Res: the type of the value returned
Res(fn) ==
    IF fn.def = "struct" /\ (fn.isVoid \/ fn.resType = NoType) THEN voidT ELSE fn.resType

\* def.path[:i] of Module panics when the path holds no "/"
ModulePanics(fn) == LastIndex(fn.path, "/") = 0

\* Module that cuts the path at its first "/"
ModuleAtFirstSlash(fn) ==
    LET i == CHOOSE k \in DOMAIN fn.path : fn.path[k] = "/" /\ \A j \in 1..(k-1) : fn.path[j] # "/"
    IN TrimPrefix(ReplaceAll(SubSeq(fn.path, 1, i - 1), "/", "."), ".")

\* functionDefinition.Module and structFunctionDefinition.Module
Module(fn) ==
    LET i == LastIndex(fn.path, "/")
    IN TrimPrefix(ReplaceAll(SubSeq(fn.path, 1, i - 1), "/", "."), ".")

\* ------------------------------------------------------------------------
\* ReflectSpec
\* ------------------------------------------------------------------------
NilComponents == [nilComponents |-> TRUE]
NilPaths == [nilPaths |-> TRUE]
NilOperation == [nilOperation |-> TRUE]

\* openapi3.T{}
EmptyDocument == [openapi |-> <<>>, components |-> NilComponents, paths |-> NilPaths]

\* doc.AddOperation(path, "POST", op) on the Paths of the document
AddOperation(paths, path, op) ==
    LET ps == IF paths = NilPaths THEN <<>> ELSE paths
    IN IF path \in DOMAIN ps
       THEN [ps EXCEPT ![path].post = op]
       ELSE (path :> [post |-> op, get |-> NilOperation]) @@ ps

\* the operation ReflectSpec builds for fn
newOperation(fn, reqRef, resRef) ==
    [operationId |-> Module(fn) \o <<"#">> \o fn.name,
     requestBody |-> reqRef,
     responses |-> ("200" :> resRef),
     tags |-> <<Module(fn)>>]

\* the loop of ReflectSpec over fns, from the i-th function on
RECURSIVE reflectFunctions(_, _, _, _, _)

\* the loop once the result type of the i-th function is reflected as res
reflectedResponse(fns, i, cfgSettings, reversed, acc, req, res) ==
    IF res.panic THEN [acc EXCEPT !.table = res.table, !.log = res.log, !.panic = TRUE]
    ELSE IF res.err # NoError
    THEN [acc EXCEPT !.table = res.table, !.log = res.log, !.err = res.err]
    ELSE reflectFunctions(fns, i + 1, cfgSettings, reversed,
            [acc EXCEPT !.table = res.table, !.log = res.log,
                        !.paths = AddOperation(acc.paths, fns[i].path,
                                               newOperation(fns[i], req.ref, res.ref))])

\* reflectedRequest that reflects the result type into a table of its own
reflectedRequestOwnTable(fns, i, cfgSettings, reversed, acc, req) ==
    IF req.panic THEN [acc EXCEPT !.table = req.table, !.log = req.log, !.panic = TRUE]
    ELSE IF req.err # NoError
    THEN [acc EXCEPT !.table = req.table, !.log = req.log, !.err = req.err]
    ELSE reflectedResponse(fns, i, cfgSettings, reversed, acc, req,
            reflectSchema(Res(fns[i]), <<>>, cfgSettings, req.log, reversed))

\* the loop once the request type of the i-th function is reflected as req
reflectedRequest(fns, i, cfgSettings, reversed, acc, req) ==
    IF req.panic THEN [acc EXCEPT !.table = req.table, !.log = req.log, !.panic = TRUE]
    ELSE IF req.err # NoError
    THEN [acc EXCEPT !.table = req.table, !.log = req.log, !.err = req.err]
    ELSE reflectedResponse(fns, i, cfgSettings, reversed, acc, req,
            reflectSchema(Res(fns[i]), req.table, cfgSettings, req.log, reversed))

reflectFunctions(fns, i, cfgSettings, reversed, acc) ==
    IF i > Len(fns) THEN acc
    ELSE IF ModulePanics(fns[i]) THEN [acc EXCEPT !.panic = TRUE]
    ELSE reflectedRequest(fns, i, cfgSettings, reversed, acc,
            IF Req(fns[i]) # voidT
            THEN reflectSchema(Req(fns[i]), acc.table, cfgSettings, acc.log, reversed)
            ELSE [ref |-> NilRef, err |-> NoError, table |-> acc.table,
                  log |-> acc.log, panic |-> FALSE])

\* the caller's template after the call: root is a copy of the template that
\* shares the template's Paths when it has them
templateAfter(root, r) ==
    IF root.paths = NilPaths THEN root ELSE [root EXCEPT !.paths = r.paths]

\* what ReflectSpec returns once the loop over fns ended as r
reflectedSpec(root, r) ==
    IF r.panic
    THEN [doc |-> EmptyDocument, err |-> NoError, panic |-> TRUE,
          template |-> templateAfter(root, r), log |-> r.log, table |-> r.table]
    ELSE IF r.err # NoError
    THEN [doc |-> EmptyDocument,
          err |-> <<"failed to reflect openapi spec: ">> \o r.err,
          panic |-> FALSE, template |-> templateAfter(root, r), log |-> r.log,
          table |-> r.table]
    ELSE [doc |-> [openapi |-> <<"3.0.2">>,
                   components |-> IF root.components = NilComponents
                                  THEN [schemas |-> r.table]
                                  ELSE root.components,
                   paths |-> r.paths],
          err |-> NoError, panic |-> FALSE, template |-> templateAfter(root, r), log |-> r.log,
          table |-> r.table]

\* ReflectSpec(root, fns, withSettings(cfgSettings)): the document and error
\* returned, the caller's template afterwards, and components.Schemas, the
\* table the call reflected into
ReflectSpec(root, fns, cfgSettings, log, reversed) ==
    reflectedSpec(root,
        reflectFunctions(fns, 1, cfgSettings, reversed,
            [paths |-> root.paths, table |-> <<>>, log |-> log, err |-> NoError,
             panic |-> FALSE]))

\* ------------------------------------------------------------------------
\* Inputs of the naming and required-field components
\* ------------------------------------------------------------------------
dup == StructT(ExposePath, ExposePkg, <<"dup">>, <<Field("Foo", StringT, <<>>, FALSE)>>)
FooT == StructT(ExposePath, ExposePkg, <<"Foo">>, <<Field("A", IntT, <<>>, FALSE)>>)
\* a struct whose declared name is FooList
FooListT == StructT(ExposePath, ExposePkg, <<"Foo", "List">>, <<Field("B", IntT, <<>>, FALSE)>>)
\* a type of the same name in another package of the same package name
OtherFooT == StructT(<<"example.org", "/", "expose">>, ExposePkg, <<"Foo">>,
                     <<Field("C", StringT, <<>>, FALSE)>>)
AnonA == StructT(<<>>, <<>>, <<>>, <<Field("X", IntT, <<>>, FALSE)>>)
AnonB == StructT(<<>>, <<>>, <<>>, <<Field("Y", StringT, <<"y">>, FALSE)>>)
MyInt == NamedT("int", ExposePath, ExposePkg, <<"MyInt">>)

NamingBase == {IntT, StringT, dup, FooT, FooListT, OtherFooT, AnonA, AnonB, MyInt}

RECURSIVE Wrapped(_, _)
Wrapped(S, n) ==
    IF n = 0 THEN S
    ELSE LET W == Wrapped(S, n - 1)
         IN W \cup {PtrT(t) : t \in W} \cup {SliceT(t) : t \in W} \cup {MapT(t) : t \in W}

NamingTypes == Wrapped(NamingBase, MaxWrap)

\* the embedded types of TestRequired
barT == StructT(ExposePath, ExposePkg, <<"bar">>,
                <<Field("Bar", StringT, <<"bar">>, FALSE),
                  Field("Nope1", StringT, <<"nope1", ",", "omitempty">>, FALSE)>>)
bazT == StructT(ExposePath, ExposePkg, <<"baz">>,
                <<Field("Baz", StringT, <<"baz">>, FALSE),
                  Field("Nope2", StringT, <<"nope2", ",", "omitempty">>, FALSE)>>)

\* the fields a struct given to getRequiredProps is built from; every shape
\* has its own declared name and its own json name
FieldShapes ==
    { Field("Plain", StringT, <<>>, FALSE),
      Field("Foo", StringT, <<"foo">>, FALSE),
      Field("Opt", StringT, <<"opt", ",", "omitempty">>, FALSE),
      Field("Unnamed", StringT, <<",", "omitempty">>, FALSE),
      Field("Ignored", StringT, <<"-">>, FALSE),
      Field("Dash", StringT, <<"-", ",">>, FALSE),
      Field("Num", IntT, <<"num", ",", "string">>, FALSE),
      Field("Comma", IntT, <<",">>, FALSE),
      Field("OptStr", IntT, <<"optstr", ",", "omitempty", ",", "string">>, FALSE),
      Field("StrOpt", IntT, <<"stropt", ",", "string", ",", "omitempty">>, FALSE),
      Field("hidden", StringT, <<>>, FALSE),
      Field("Nested", dup, <<"nested">>, FALSE),
      Field("bar", barT, <<>>, TRUE),
      Field("baz", PtrT(bazT), <<>>, TRUE),
      Field("MyInt", MyInt, <<>>, TRUE) }

RequiredStructs ==
    {StructT(<<>>, <<>>, <<>>, fs) : fs \in {s \in SeqsUpTo(FieldShapes, MaxFields) : IsInjective(s)}}

RequiredInputs ==
    RequiredStructs \cup {PtrT(t) : t \in RequiredStructs}
        \cup {IntT, MyInt, SliceT(barT), MapT(barT), PtrT(PtrT(barT))}

\* ------------------------------------------------------------------------
\* Inputs of endpoint discovery
\* ------------------------------------------------------------------------
\* func (*T) Bulk(ctx, a, b) error: a parameter after the request
mBulk == Method(<<"B", "u", "l", "k">>, "ptr", 3, 1, TRUE, TRUE)
\* func (*T) Count(ctx) (int, error)
mCount == Method(<<"C", "o", "u", "n", "t">>, "ptr", 1, 2, TRUE, TRUE)
\* func (T) FooBar(ctx, req) error
mFooBar == Method(<<"F", "o", "o", "B", "a", "r">>, "value", 2, 1, TRUE, TRUE)
\* func (T) Handle(ctx, req) (res, error)
mHandle == Method(<<"H", "a", "n", "d", "l", "e">>, "value", 2, 2, TRUE, TRUE)
\* func (*T) Inc(ctx) error
mInc == Method(<<"I", "n", "c">>, "ptr", 1, 1, TRUE, TRUE)
\* func (T) Pair(ctx) (int, int)
mPair == Method(<<"P", "a", "i", "r">>, "value", 1, 2, TRUE, FALSE)
\* func (T) Plain(n int) error
mPlain == Method(<<"P", "l", "a", "i", "n">>, "value", 1, 1, FALSE, TRUE)
\* func (*T) inc(ctx) error, unexported
mLowerInc == Method(<<"i", "n", "c">>, "ptr", 1, 1, TRUE, TRUE)

\* in name order, as reflect lists them
MethodShapes == <<mBulk, mCount, mFooBar, mHandle, mInc, mPair, mPlain, mLowerInc>>

MethodLists ==
    { LET In(m) == m \in ms IN SelectSeq(MethodShapes, In) :
        ms \in {x \in SUBSET Range(MethodShapes) : Cardinality(x) <= MaxMethods} }

nSub == <<"S", "u", "b">>
nFooBar == <<"F", "o", "o", "_", "B", "a", "r">>
nHidden == <<"h", "i", "d", "d", "e", "n">>

\* the fields the struct given to Struct is built from, in the order of their
\* declaration
FieldOptions ==
    << FieldV(nSub, StructV(<<mCount, mInc>>, <<>>)),
       FieldV(nSub, PtrV(StructV(<<mInc>>, <<>>))),
       FieldV(nFooBar, StructV(<<mInc>>, <<>>)),
       FieldV(nHidden, StructV(<<mInc>>, <<>>)),
       FieldV(<<"Q", "u", "e", "r", "y", "2">>, NilPtrV),
       FieldV(<<"A", "b">>, IfaceV(PtrV(StructV(<<mCount>>, <<>>)))),
       FieldV(<<"A", "B">>, IfaceV(StructV(<<mHandle, mInc>>, <<>>))),
       FieldV(<<"A", "n", "y">>, NilIfaceV),
       FieldV(<<"N">>, IntV),
       FieldV(<<"P", "P">>, PtrV(PtrV(StructV(<<mInc>>, <<>>)))),
       FieldV(<<"D", "e", "e", "p">>,
              StructV(<<>>, <<FieldV(nSub, StructV(<<mBulk, mCount, mInc>>, <<>>)),
                              FieldV(nHidden, PtrV(StructV(<<mCount>>, <<>>)))>>)) >>

FieldLists ==
    { LET In(f) == f \in fs IN SelectSeq(FieldOptions, In) :
        fs \in {x \in SUBSET Range(FieldOptions) :
                  /\ Cardinality(x) <= MaxNodeFields
                  /\ \A f, g \in x : f.name = g.name => f = g} }

StructNodes == {StructV(ms, fs) : ms \in MethodLists, fs \in FieldLists}

StructRoots == StructNodes \cup {PtrV(n) : n \in StructNodes} \cup {NilPtrV, IntV}

BasePaths == {<<"/", "a", "p", "p">>, <<>>}

\* ------------------------------------------------------------------------
\* Inputs of schema reflection
\* ------------------------------------------------------------------------
dedup1 == StructT(ExposePath, ExposePkg, <<"dedup1">>, <<Field("Dup1", dup, <<>>, FALSE)>>)
dedup2 == StructT(ExposePath, ExposePkg, <<"dedup2">>, <<Field("Dup2", dup, <<>>, FALSE)>>)
\* two fields of the same nested struct type
pairT == StructT(ExposePath, ExposePkg, <<"pair">>,
                 <<Field("A", dup, <<"a">>, FALSE), Field("B", PtrT(dup), <<>>, FALSE)>>)
midT == StructT(ExposePath, ExposePkg, <<"mid">>, <<Field("D", dup, <<"d", ",", "omitempty">>, FALSE)>>)
outerT == StructT(ExposePath, ExposePkg, <<"outer">>,
                  <<Field("Inner", midT, <<"inner">>, FALSE),
                    Field("Items", SliceT(dup), <<>>, FALSE),
                    Field("hidden", dup, <<>>, FALSE)>>)
holderT == StructT(ExposePath, ExposePkg, <<"holder">>,
                   <<Field("M", MapT(dup), <<>>, FALSE), Field("C", customT, <<>>, FALSE)>>)
reqT == StructT(ExposePath, ExposePkg, <<"req">>,
                <<Field("Foo", StringT, <<"foo">>, FALSE),
                  Field("Skip", dup, <<"-">>, FALSE),
                  Field("bar", barT, <<>>, TRUE)>>)

ReflectTypes ==
    {dup, dedup1, dedup2, PtrT(dedup2), pairT, outerT, midT, holderT, reqT,
     customT, IntT, SliceT(StringT), SliceT(dup)}

ReflectSettings ==
    [typeNamer : {"default", "short"}, mapper : {"unset", "none", "dupString"},
     skipExtractSubSchemas : BOOLEAN, customizers : {<<>>}]

\* ------------------------------------------------------------------------
\* Inputs of ReflectSpec
\* ------------------------------------------------------------------------
pCounterInc == <<"/", "c", "o", "u", "n", "t", "e", "r", "/", "i", "n", "c">>
pCounterGet == <<"/", "c", "o", "u", "n", "t", "e", "r", "/", "g", "e", "t">>

Mountpoints ==
    { pCounterInc,
      pCounterGet,
      <<"/", "a", "/", "b", "/", "g", "e", "t">>,
      <<"/", "/", "a", "/", "x">>,
      <<"/", "x">>,
      <<"x">> }

FuncOptions ==
    {Func(mp, IntT, IntT) : mp \in Mountpoints}
        \cup {Func(mp, voidT, IntT) : mp \in Mountpoints}
        \cup {Func(mp, pairT, voidT) : mp \in Mountpoints}

\* the lists Struct discovers for some roots
DiscoveredLists ==
    { Struct(<<"/", "a", "p", "p">>, root).fns :
        root \in { PtrV(StructV(<<mHandle>>, <<FieldV(nSub, StructV(<<mCount, mInc>>, <<>>))>>)),
                   PtrV(StructV(<<mCount, mFooBar>>, <<>>)),
                   PtrV(StructV(<<>>, <<FieldV(nSub, StructV(<<mInc>>, <<>>)),
                                        FieldV(nFooBar, StructV(<<mInc>>, <<>>))>>)) } }

DocFunctions == SeqsUpTo(FuncOptions, MaxFns) \cup DiscoveredLists

tmplOperation ==
    [operationId |-> <<"t", "m", "p", "l">>, requestBody |-> NilRef,
     responses |-> <<>>, tags |-> <<>>]

\* the templates: openapi3.T{}, one with its own components, one with its own
\* paths
DocTemplates ==
    { EmptyDocument,
      [EmptyDocument EXCEPT !.components =
          [schemas |-> (<<"Extra">> :> NewSchemaRef(<<>>, NewSchema("string")))]],
      [EmptyDocument EXCEPT !.paths =
          (pCounterInc :> [post |-> tmplOperation, get |-> tmplOperation])] }

DocSettings ==
    [typeNamer : {"default"}, mapper : {"none"}, skipExtractSubSchemas : BOOLEAN,
     customizers : {<<>>}]

\* ------------------------------------------------------------------------
\* Values of the variables a behaviour does not use
\* ------------------------------------------------------------------------
IdleNaming == nmType = NoType /\ nmNamer = "default" /\ nmIds = <<>>
IdleRequired == rqType = NoType /\ rqProps = <<>>
IdleReflect ==
    settings = <<>> /\ options = <<>> /\ schemas = <<>> /\ pipeLog = <<>> /\ calls = <<>>
IdleStruct == stRoot = <<>> /\ stBase = <<>> /\ functions = <<>> /\ visits = <<>>
IdleDoc == docFns = <<>> /\ docTemplate = <<>> /\ doc = <<>> /\ docErr = <<>>
IdleHandler == hSettings = <<>> /\ hFns = <<>> /\ handler = <<>> /\ exchange = <<>>
IdleWalk == wkRoot = <<>> /\ wkVisitor = <<>> /\ wkVisited = <<>> /\ wkResult = <<>>
IdlePasses == passes = <<>>
IdleApply == apFn = <<>> /\ apSpec = <<>> /\ apCall = <<>>
IdleGraph == stHeap = <<>> /\ stStack = <<>>

\* ------------------------------------------------------------------------
\* Naming: the identifier of a type, of a pointer to it and of a list of it
\* ------------------------------------------------------------------------
InitNaming ==
    /\ phase = "naming"
    /\ nmType \in NamingTypes
    /\ nmNamer \in {"default", "short"}
    /\ nmIds = <<>>
    /\ IdleRequired /\ IdleReflect /\ IdleStruct /\ IdleDoc /\ IdleHandler /\ IdleWalk
    /\ IdlePasses /\ IdleApply /\ IdleGraph

Identify(key, t) ==
    /\ phase = "naming"
    /\ key \notin DOMAIN nmIds
    /\ nmIds' = nmIds @@ (key :> typeNamer(nmNamer, t))
    /\ UNCHANGED <<phase, nmType, nmNamer, requiredVars, reflectVars, structVars, docVars, handlerVars, walkVars, passVars, applyVars, graphVars>>

IdentifyType == Identify("self", nmType)
IdentifyAgain == "self" \in DOMAIN nmIds /\ Identify("again", nmType)
IdentifyPointer == Identify("ptr", PtrT(nmType))
IdentifyList == Identify("list", SliceT(nmType))

NextNaming == IdentifyType \/ IdentifyAgain \/ IdentifyPointer \/ IdentifyList

SpecNaming == InitNaming /\ [][NextNaming]_vars

\* ------------------------------------------------------------------------
\* Required: one call of getRequiredProps
\* ------------------------------------------------------------------------
InitRequired ==
    /\ phase = "required"
    /\ rqType \in RequiredInputs
    /\ rqProps = <<>>
    /\ IdleNaming /\ IdleReflect /\ IdleStruct /\ IdleDoc /\ IdleHandler /\ IdleWalk
    /\ IdlePasses /\ IdleApply /\ IdleGraph

GetRequiredProps ==
    /\ phase = "required"
    /\ rqProps' = getRequiredProps(rqType)
    /\ phase' = "required-done"
    /\ UNCHANGED <<rqType, namingVars, reflectVars, structVars, docVars, handlerVars, walkVars, passVars, applyVars, graphVars>>

NextRequired == GetRequiredProps

SpecRequired == InitRequired /\ [][NextRequired]_vars

\* ------------------------------------------------------------------------
\* C3
\* ------------------------------------------------------------------------
\* C3: for DefaultSchemaIdentifier and ShortSchemaIdentifier and every type T,
\* a repeated call returns the same identifier, the identifier of *T is the
\* identifier of T, and the identifier of []T is the identifier of T followed
\* by "List".
C3_IdentifierLaws ==
    /\ {"self", "again"} \subseteq DOMAIN nmIds => nmIds["again"] = nmIds["self"]
    /\ {"self", "ptr"} \subseteq DOMAIN nmIds => nmIds["ptr"] = nmIds["self"]
    /\ {"self", "list"} \subseteq DOMAIN nmIds => nmIds["list"] = nmIds["self"] \o <<"List">>

C3_Witness ==
    /\ DOMAIN nmIds = {"self", "again", "ptr", "list"}
    /\ nmType = PtrT(dup)
    /\ nmNamer = "default"
    /\ nmIds["ptr"] = <<"github.com", ".", "pbedat", ".", "expose", ".", "dup">>

\* ------------------------------------------------------------------------
\* C4, C5
\* ------------------------------------------------------------------------
\* the comma-separated parts of a json tag value, "" for an empty part
RECURSIVE TagParts(_)
TagParts(tag) ==
    LET c == Cut(tag, ",")
        part == IF c.before = <<>> THEN "" ELSE c.before[1]
    IN IF c.found THEN <<part>> \o TagParts(c.after) ELSE <<part>>

HasOmitEmpty(f) == f.tag # <<>> /\ "omitempty" \in Range(Tail(TagParts(f.tag)))

\* the name a field is known by: the name of its annotation, the declared
\* name when there is no annotation or the annotation gives no name
JsonName(f) ==
    IF f.tag = <<>> \/ TagParts(f.tag)[1] = "" THEN f.name ELSE TagParts(f.tag)[1]

RECURSIVE StripPointers(_)
StripPointers(t) == IF t.kind = "ptr" THEN StripPointers(t.elem) ELSE t

\* the names the claim lists for a type: with withOmit, fields carrying the
\* omit-empty flag count as renamed fields; without, they are left out
RECURSIVE ClaimedNames(_, _)
ClaimedNames(t, withOmit) ==
    LET s == StripPointers(t) IN
    IF s.kind # "struct" THEN {}
    ELSE UNION { IF f.anonymous THEN ClaimedNames(f.type, withOmit)
                 ELSE IF JsonName(f) = "-" /\ f.tag # <<>> THEN {}
                 ELSE IF HasOmitEmpty(f) /\ ~withOmit THEN {}
                 ELSE {JsonName(f)} : f \in Range(s.fields) }

\* C4: getRequiredProps(T) returns exactly the declared name of every field
\* without json annotation, the annotation name of every renamed field (the
\* declared name when the annotation gives none) and, flattened, the required
\* names of every embedded field; fields renamed to "-" are excluded; a pointer
\* to a struct yields what the struct yields; a non-struct type yields nothing.
\* Fields carrying the omit-empty flag are the subject of C5: every name the
\* claim lists for the other fields is returned, and nothing is returned that
\* the claim does not list for some field.
C4_RequiredNames ==
    phase = "required-done" =>
        /\ ClaimedNames(rqType, FALSE) \subseteq Range(rqProps)
        /\ Range(rqProps) \subseteq ClaimedNames(rqType, TRUE)
        /\ StripPointers(rqType).kind # "struct" => rqProps = <<>>
        /\ rqType.kind = "ptr" => rqProps = getRequiredProps(rqType.elem)

C4_Witness ==
    /\ phase = "required-done"
    /\ rqType.kind = "ptr"
    /\ rqType.elem.kind = "struct"
    /\ Len(rqType.elem.fields) = 2
    /\ rqType.elem.fields[1].anonymous
    /\ rqType.elem.fields[2].name = "Comma"
    /\ rqProps = <<"bar", "Comma">>

\* the names of the fields of a type that carry the omit-empty flag
RECURSIVE OmitEmptyNames(_)
OmitEmptyNames(t) ==
    LET s == StripPointers(t) IN
    IF s.kind # "struct" THEN {}
    ELSE UNION { IF f.anonymous THEN OmitEmptyNames(f.type)
                 ELSE IF HasOmitEmpty(f) THEN {JsonName(f)}
                 ELSE {} : f \in Range(s.fields) }

\* C5: a field whose json annotation carries the omit-empty flag is never in
\* the set getRequiredProps returns, whatever its rename and wherever the flag
\* stands among the comma-separated options.
C5_OmitEmptyNeverRequired ==
    phase = "required-done" => OmitEmptyNames(rqType) \cap Range(rqProps) = {}


\* ------------------------------------------------------------------------
\* Discovery: one call of Struct
\* ------------------------------------------------------------------------
InitStruct ==
    /\ phase = "struct"
    /\ stRoot \in StructRoots
    /\ stBase \in BasePaths
    /\ functions = <<>>
    /\ visits = <<>>
    /\ IdleNaming /\ IdleRequired /\ IdleReflect /\ IdleDoc /\ IdleHandler /\ IdleWalk
    /\ IdlePasses /\ IdleApply /\ IdleGraph

StructCall ==
    /\ phase = "struct"
    /\ LET r == Struct(stBase, stRoot)
       IN functions' = r.fns /\ visits' = r.visits
    /\ phase' = "struct-done"
    /\ UNCHANGED <<stRoot, stBase, namingVars, requiredVars, reflectVars, docVars, handlerVars, walkVars, passVars, applyVars, graphVars>>

NextStruct == StructCall

SpecStruct == InitStruct /\ [][NextStruct]_vars

\* ------------------------------------------------------------------------
\* C6 - C9
\* ------------------------------------------------------------------------
\* the four supported signatures: (ctx) or (ctx, request), returning error or
\* (result, error)
SupportedSignature(m) ==
    /\ m.numIn \in {1, 2} /\ m.ctxFirst
    /\ m.numOut \in {1, 2} /\ m.errLast

\* the eligible methods of a visited node: exported methods of a supported
\* signature in the method set Go gives the value (pointer-receiver methods
\* only when the value is addressable)
EligibleAt(visit) ==
    { m \in Range(visit.node.methods) :
        IsExported(m.name) /\ SupportedSignature(m) /\ (m.recv = "value" \/ visit.canAddr) }

RegisteredAt(i) == {k \in DOMAIN functions : functions[k].at = i}

\* C6: at every struct node visited, one eligible method gives exactly one
\* endpoint at the node's path; n > 1 eligible methods give exactly n
\* endpoints, one per method at path/kebab(method name); none gives none.
C6_EndpointsPerNode ==
    phase = "struct-done" =>
        \A i \in DOMAIN visits :
            LET E == EligibleAt(visits[i])
                R == RegisteredAt(i)
            IN /\ Cardinality(E) = 1 =>
                    /\ Cardinality(R) = 1
                    /\ \A k \in R : functions[k].path = visits[i].path
               /\ Cardinality(E) > 1 =>
                    /\ Cardinality(R) = Cardinality(E)
                    /\ \A m \in E : \E k \in R :
                          /\ functions[k].name = m.name
                          /\ functions[k].path = visits[i].path \o <<"/">> \o ToKebab(m.name)
               /\ Cardinality(E) = 0 => R = {}

\* the struct a value leads to: through one non-nil pointer, and through a
\* non-nil interface to whatever its content leads to
RECURSIVE StructBehind(_)
StructBehind(v) ==
    LET u == IF v.kind = "ptr" /\ ~v.nil THEN v.elem ELSE v
    IN IF u.kind = "struct" THEN {u}
       ELSE IF u.kind = "interface" /\ ~u.nil /\ ~(v.kind = "ptr" /\ v.nil) THEN StructBehind(u.elem)
       ELSE {}

\* the exported fields of a visited node that hold a struct
DescentsOf(i) ==
    { k \in DOMAIN visits[i].node.fields :
        /\ IsExported(visits[i].node.fields[k].name)
        /\ StructBehind(visits[i].node.fields[k].value) # {} }

RECURSIVE SumOver(_, _)
SumOver(S, f) ==
    IF S = {} THEN 0 ELSE LET x == CHOOSE y \in S : TRUE IN f[x] + SumOver(S \ {x}, f)

\* C7: discovery descends into every exported field of every struct node, with
\* path currentPath/kebab(field name), whether or not the node registered
\* endpoints; unexported fields, nil pointers and nil interfaces contribute
\* nothing.  A struct with one method, eligible, and one exported field whose
\* struct has two methods, both eligible, yields exactly three endpoints: one at
\* the struct's path and two under the field's kebab-cased path.
C7_DescendsIntoExportedFields ==
    phase = "struct-done" =>
        /\ \A i \in DOMAIN visits : \A k \in DescentsOf(i) :
              \E j \in DOMAIN visits :
                  /\ j > i
                  /\ visits[j].path = visits[i].path \o <<"/">>
                                        \o ToKebab(visits[i].node.fields[k].name)
                  /\ visits[j].node \in StructBehind(visits[i].node.fields[k].value)
        /\ Len(visits) = Cardinality(StructBehind(stRoot))
                          + SumOver(DOMAIN visits, [i \in DOMAIN visits |-> Cardinality(DescentsOf(i))])
        /\ \A k \in DOMAIN functions : functions[k].at \in DOMAIN visits
        /\ ( /\ stRoot.kind = "ptr" /\ ~stRoot.nil
             /\ Len(stRoot.elem.methods) = 1
             /\ IsExported(stRoot.elem.methods[1].name)
             /\ SupportedSignature(stRoot.elem.methods[1])
             /\ Len(stRoot.elem.fields) = 1
             /\ IsExported(stRoot.elem.fields[1].name)
             /\ stRoot.elem.fields[1].value.kind = "struct"
             /\ stRoot.elem.fields[1].value.fields = <<>>
             /\ Len(stRoot.elem.fields[1].value.methods) = 2
             /\ \A m \in Range(stRoot.elem.fields[1].value.methods) :
                   IsExported(m.name) /\ SupportedSignature(m) )
           => LET sub == stRoot.elem.fields[1]
                  under == stBase \o <<"/">> \o ToKebab(sub.name)
              IN /\ Len(functions) = 3
                 /\ functions[1].path = stBase
                 /\ {functions[2].path, functions[3].path}
                      = {under \o <<"/">> \o ToKebab(m.name) : m \in Range(sub.value.methods)}
                 /\ functions[2].path # functions[3].path

C7_Witness ==
    /\ phase = "struct-done"
    /\ stBase = <<"/", "a", "p", "p">>
    /\ stRoot = PtrV(StructV(<<mHandle>>, <<FieldV(nSub, StructV(<<mCount, mInc>>, <<>>))>>))
    /\ Len(functions) = 3
    /\ functions[1].path = <<"/", "a", "p", "p">>
    /\ functions[2].path = <<"/", "a", "p", "p", "/", "s", "u", "b", "/", "c", "o", "u", "n", "t">>
    /\ functions[3].path = <<"/", "a", "p", "p", "/", "s", "u", "b", "/", "i", "n", "c">>

\* C8: a method is treated as eligible at a node (counted for the path rule and
\* registered) if and only if it is exported and has one of the four supported
\* signatures; any other method neither registers an endpoint nor changes the
\* path at which the node's other methods are registered.
C8_EligibleIffSupported ==
    phase = "struct-done" =>
        \A i \in DOMAIN visits :
            /\ Range(visits[i].found) = {m.name : m \in EligibleAt(visits[i])}
            /\ {functions[k].name : k \in RegisteredAt(i)} = {m.name : m \in EligibleAt(visits[i])}
            /\ \A k \in RegisteredAt(i) :
                  functions[k].path =
                      IF Cardinality(EligibleAt(visits[i])) = 1 THEN visits[i].path
                      ELSE visits[i].path \o <<"/">> \o ToKebab(functions[k].name)

\* C9: in the list returned by one Struct call no two endpoints have the same
\* path.
C9_PathsUnique ==
    phase = "struct-done" =>
        \A i, j \in DOMAIN functions : functions[i].path = functions[j].path => i = j


\* ------------------------------------------------------------------------
\* Reflection: reflectSchema calls that share one schema table
\* ------------------------------------------------------------------------
Init ==
    /\ phase = "reflect"
    /\ settings \in ReflectSettings
    /\ options = <<>>
    /\ schemas = <<>>
    /\ pipeLog = <<>>
    /\ calls = <<>>
    /\ IdleNaming /\ IdleRequired /\ IdleStruct /\ IdleDoc /\ IdleHandler /\ IdleWalk
    /\ IdlePasses /\ IdleApply /\ IdleGraph

\* the return of reflectSchema for a value of type t with the result r
ReflectSchemaReturn(t, id, r) ==
    /\ schemas' = r.table
    /\ pipeLog' = r.log
    /\ calls' = Append(calls, [t |-> t, id |-> id, known |-> id \in DOMAIN schemas,
                               ref |-> r.ref, err |-> r.err, logLen |-> Len(r.log)])
    /\ phase' = IF r.panic THEN "reflect-panic" ELSE phase

\* reflectSchema(val, schemas, settings) for a value of type t; reversed
\* chooses the order in which the walk ranges over Properties
ReflectSchemaCall(t, reversed) ==
    /\ phase = "reflect"
    /\ Len(calls) < MaxCalls
    /\ ReflectSchemaReturn(t, typeNamer(settings.typeNamer, t),
                           reflectSchema(t, schemas, settings, pipeLog, reversed))
    /\ UNCHANGED <<settings, options, namingVars, requiredVars, structVars, docVars, handlerVars, walkVars, passVars, applyVars, graphVars>>

Next == \E t \in ReflectTypes, reversed \in BOOLEAN : ReflectSchemaCall(t, reversed)

Spec == Init /\ [][Next]_vars

\* ------------------------------------------------------------------------
\* C1, C2
\* ------------------------------------------------------------------------
\* C1: a reflectSchema call for a type whose identifier is already in the
\* schema table returns the reference "#/components/schemas/<id>", runs no
\* customizer step (the mapper included) and leaves the table unchanged.
C1_KnownIdentifierShortCircuits ==
    [][ (Len(calls') = Len(calls) + 1 /\ calls'[Len(calls')].id \in DOMAIN schemas)
            => /\ schemas' = schemas
               /\ pipeLog' = pipeLog
               /\ calls'[Len(calls')].err = NoError
               /\ calls'[Len(calls')].ref
                    = NewSchemaRef(RefPrefix \o calls'[Len(calls')].id, NilSchema) ]_vars

C1_Witness ==
    /\ Len(calls) = 2
    /\ calls[1].t = dedup1 /\ ~calls[1].known
    /\ calls[2].t = dedup1 /\ calls[2].known
    /\ settings.mapper = "none"
    /\ \E k \in DOMAIN pipeLog : pipeLog[k].step = "mapper" /\ pipeLog[k].t = dedup1
    /\ calls[2].ref = NewSchemaRef(RefPrefix \o calls[2].id, NilSchema)

\* a struct type that the build describes by its fields: not a SchemaProvider
\* and not mapped by the user mapper
IsPlainStruct(t) ==
    /\ t.kind = "struct"
    /\ t \notin ProviderTypes
    /\ mapperResult(settings.mapper, t) = NilSchema

\* the fields of a struct type that are properties holding a nested struct
NestedStructFields(t) ==
    { f \in Range(t.fields) :
        /\ ~f.anonymous /\ f.name \notin LowerFirstNames /\ f.tag # <<"-">>
        /\ IsPlainStruct(StripPointers(f.type)) }

\* the nodes directly below a schema: its properties and its list item
ChildrenOf(schema) ==
    {schema.properties[n] : n \in DOMAIN schema.properties}
        \cup (IF schema.items = NilRef THEN {} ELSE {schema.items})

\* C2: after building with extraction enabled, a nested struct type T has one
\* schema-table entry, its definition, and every occurrence of T as a field
\* is a reference to that entry and no inline definition, both for two fields
\* of one parent type and for two parent types built one after the other.
C2_NestedStructsShareOneEntry ==
    (phase = "reflect" /\ ~settings.skipExtractSubSchemas) =>
        \A k \in DOMAIN calls :
            LET parent == StripPointers(calls[k].t)
            IN (calls[k].err = NoError /\ IsPlainStruct(parent)) =>
                \A f \in NestedStructFields(parent) :
                    LET id == typeNamer(settings.typeNamer, f.type)
                        occ == schemas[calls[k].id].value.properties[JsonName(f)]
                    IN /\ occ = NewSchemaRef(RefPrefix \o id, NilSchema)
                       /\ id \in DOMAIN schemas
                       /\ schemas[id].value # NilSchema
                       /\ schemas[id].value.type = "object"
                       /\ \A c \in ChildrenOf(schemas[id].value) :
                             c.value # NilSchema => "$id" \notin DOMAIN c.value.extensions

C2_Witness ==
    /\ phase = "reflect" /\ ~settings.skipExtractSubSchemas
    /\ settings.typeNamer = "default" /\ settings.mapper = "none"
    /\ Len(calls) = 2
    /\ calls[1].t = pairT /\ calls[2].t = dedup1
    /\ LET id == DefaultSchemaIdentifier(dup)
       IN /\ schemas[calls[1].id].value.properties["a"] = NewSchemaRef(RefPrefix \o id, NilSchema)
          /\ schemas[calls[1].id].value.properties["B"] = NewSchemaRef(RefPrefix \o id, NilSchema)
          /\ schemas[calls[2].id].value.properties["Dup1"] = NewSchemaRef(RefPrefix \o id, NilSchema)
          /\ DOMAIN schemas[id].value.properties = {"Foo"}


\* ------------------------------------------------------------------------
\* Document: one call of ReflectSpec
\* ------------------------------------------------------------------------
InitDoc ==
    /\ phase = "doc"
    /\ settings \in DocSettings
    /\ docFns \in DocFunctions
    /\ docTemplate \in DocTemplates
    /\ doc = EmptyDocument
    /\ docErr = NoError
    /\ options = <<>> /\ schemas = <<>> /\ pipeLog = <<>> /\ calls = <<>>
    /\ IdleNaming /\ IdleRequired /\ IdleStruct /\ IdleHandler /\ IdleWalk
    /\ IdlePasses /\ IdleApply /\ IdleGraph

ReflectSpecReturn(r) ==
    /\ doc' = r.doc
    /\ docErr' = r.err
    /\ docTemplate' = r.template
    /\ schemas' = r.table
    /\ pipeLog' = r.log
    /\ phase' = IF r.panic THEN "doc-panic" ELSE "doc-done"

ReflectSpecCall(reversed) ==
    /\ phase = "doc"
    /\ ReflectSpecReturn(ReflectSpec(docTemplate, docFns, settings, pipeLog, reversed))
    /\ UNCHANGED <<docFns, settings, options, calls, namingVars, requiredVars, structVars,
                   handlerVars, walkVars, passVars, applyVars, graphVars>>

NextDoc == \E reversed \in BOOLEAN : ReflectSpecCall(reversed)

SpecDoc == InitDoc /\ [][NextDoc]_vars

\* ------------------------------------------------------------------------
\* C10
\* ------------------------------------------------------------------------
\* the parts of a path between its "/"
RECURSIVE Segments(_)
Segments(path) ==
    LET c == Cut(path, "/")
    IN IF c.found THEN <<c.before>> \o Segments(c.after) ELSE <<path>>

RECURSIVE JoinDots(_)
JoinDots(segs) ==
    IF segs = <<>> THEN <<>>
    ELSE IF Len(segs) = 1 THEN segs[1]
    ELSE segs[1] \o <<".">> \o JoinDots(Tail(segs))

\* the parent segments of a path joined with dots, one leading dot dropped
ParentModule(path) ==
    LET segs == Segments(path)
        joined == JoinDots(SubSeq(segs, 1, Len(segs) - 1))
    IN IF joined # <<>> /\ joined[1] = "." THEN Tail(joined) ELSE joined

HasSlash(path) == \E i \in DOMAIN path : path[i] = "/"

\* the functions whose operation is the one the document holds at their path
LastAtPath == {i \in DOMAIN docFns : \A j \in DOMAIN docFns : docFns[j].path = docFns[i].path => j <= i}

\* C10: for every endpoint whose path contains a "/", Module() is the path up
\* to its last "/" with every "/" replaced by "." and the leading separator
\* trimmed; the operation added to the document has operationId
\* Module + "#" + Name and carries exactly the module string as its tag.
C10_ModuleAndOperationId ==
    /\ \A i \in DOMAIN docFns :
          HasSlash(docFns[i].path) => Module(docFns[i]) = ParentModule(docFns[i].path)
    /\ (phase = "doc-done" /\ docErr = NoError) =>
          \A i \in LastAtPath :
              /\ HasSlash(docFns[i].path)
              /\ docFns[i].path \in DOMAIN doc.paths
              /\ doc.paths[docFns[i].path].post.operationId
                    = ParentModule(docFns[i].path) \o <<"#">> \o docFns[i].name
              /\ doc.paths[docFns[i].path].post.tags = <<ParentModule(docFns[i].path)>>

C10_Witness ==
    /\ phase = "doc-done" /\ docErr = NoError
    /\ Len(docFns) = 2
    /\ docFns[1].path = pCounterInc
    /\ docFns[2].path = <<"/", "a", "/", "b", "/", "g", "e", "t">>
    /\ doc.paths[docFns[1].path].post.operationId
          = <<"c", "o", "u", "n", "t", "e", "r", "#", "i", "n", "c">>
    /\ doc.paths[docFns[2].path].post.tags = <<<<"a", ".", "b">>>>


\* ------------------------------------------------------------------------
\* C11
\* ------------------------------------------------------------------------
\* the reference to the table entry of type t
RefTo(t) == NewSchemaRef(RefPrefix \o typeNamer(settings.typeNamer, t), NilSchema)

\* the identifiers of the types the functions use as request or as result
UsedIds ==
    {typeNamer(settings.typeNamer, Req(docFns[i])) : i \in {k \in DOMAIN docFns : Req(docFns[k]) # voidT}}
        \cup {typeNamer(settings.typeNamer, Res(docFns[i])) : i \in DOMAIN docFns}

\* C11: within one ReflectSpec call all endpoints share one schema table: a
\* type used as request or result by several endpoints has one table entry and
\* every such use is a reference to it; an endpoint whose request type is Void
\* gets no request body.  For inc(ctx, int) (int, error) at /counter/inc and
\* get(ctx, Void) (int, error) at /counter/get the document has the operations
\* counter#inc and counter#get and the table holds one entry for int that both
\* reference.
C11_EndpointsShareOneTable ==
    (phase = "doc-done" /\ docErr = NoError) =>
        /\ UsedIds \subseteq DOMAIN schemas
        /\ settings.skipExtractSubSchemas => DOMAIN schemas = UsedIds
        /\ \A i \in LastAtPath :
              LET op == doc.paths[docFns[i].path].post
              IN /\ op.requestBody = IF Req(docFns[i]) = voidT THEN NilRef ELSE RefTo(Req(docFns[i]))
                 /\ op.responses["200"] = RefTo(Res(docFns[i]))
        /\ ( /\ docFns = <<Func(pCounterInc, IntT, IntT), Func(pCounterGet, voidT, IntT)>>
             /\ docTemplate.paths = NilPaths )
           => /\ DOMAIN doc.paths = {pCounterInc, pCounterGet}
              /\ doc.paths[pCounterInc].post.operationId
                    = <<"c", "o", "u", "n", "t", "e", "r", "#", "i", "n", "c">>
              /\ doc.paths[pCounterGet].post.operationId
                    = <<"c", "o", "u", "n", "t", "e", "r", "#", "g", "e", "t">>
              /\ DOMAIN schemas = {<<"int">>}
              /\ doc.paths[pCounterInc].post.requestBody = NewSchemaRef(RefPrefix \o <<"int">>, NilSchema)
              /\ doc.paths[pCounterInc].post.responses["200"] = doc.paths[pCounterInc].post.requestBody
              /\ doc.paths[pCounterGet].post.responses["200"] = doc.paths[pCounterInc].post.requestBody
              /\ doc.paths[pCounterGet].post.requestBody = NilRef

C11_Witness ==
    /\ phase = "doc-done" /\ docErr = NoError
    /\ docFns = <<Func(pCounterInc, IntT, IntT), Func(pCounterGet, voidT, IntT)>>
    /\ docTemplate = EmptyDocument
    /\ DOMAIN schemas = {<<"int">>}
    /\ doc.components = [schemas |-> schemas]
    /\ doc.paths[pCounterGet].post.requestBody = NilRef


\* ------------------------------------------------------------------------
\* Pipeline: WithSchemaCustomizers calls, then reflectSchema calls
\* ------------------------------------------------------------------------
PipelineSettings ==
    [typeNamer : {"default"}, mapper : {"none", "dupString"},
     skipExtractSubSchemas : {FALSE}, customizers : {<<>>}]

CustomizerLists == {<<"note">>, <<"stopDup">>, <<"failDup">>, <<"note", "stopDup">>}

PipelineTypes == {dup, dedup1, pairT, holderT, IntT}

InitPipeline ==
    /\ phase = "reflect"
    /\ settings \in PipelineSettings
    /\ options = <<>>
    /\ schemas = <<>>
    /\ pipeLog = <<>>
    /\ calls = <<>>
    /\ IdleNaming /\ IdleRequired /\ IdleStruct /\ IdleDoc /\ IdleHandler /\ IdleWalk
    /\ IdlePasses /\ IdleApply /\ IdleGraph

\* WithSchemaCustomizers(cs...) applied to the settings before the first build
WithSchemaCustomizersCall(cs) ==
    /\ phase = "reflect"
    /\ calls = <<>>
    /\ Len(options) < MaxOptions
    /\ settings' = WithSchemaCustomizers(settings, cs)
    /\ options' = Append(options, cs)
    /\ UNCHANGED <<phase, schemas, pipeLog, calls, namingVars, requiredVars, structVars, docVars, handlerVars, walkVars, passVars, applyVars, graphVars>>

NextPipeline ==
    \/ \E cs \in CustomizerLists : WithSchemaCustomizersCall(cs)
    \/ \E t \in PipelineTypes, reversed \in BOOLEAN : ReflectSchemaCall(t, reversed)

SpecPipeline == InitPipeline /\ [][NextPipeline]_vars

\* ------------------------------------------------------------------------
\* C12
\* ------------------------------------------------------------------------
RECURSIVE Flatten(_)
Flatten(ss) == IF ss = <<>> THEN <<>> ELSE Head(ss) \o Flatten(Tail(ss))

\* the steps in the order the claim fixes
ExpectedPipes ==
    <<"setID">> \o Flatten(options) \o <<"tryMap", "useCutomType", "markPropertiesRequired">>

IsDup(t) == t.kind = "struct" /\ t.name = <<"dup">>

\* the steps that return stop = true, and those that return an error, for t
Stops(pipe, t) ==
    \/ pipe = "stopDup" /\ IsDup(t)
    \/ pipe = "tryMap" /\ settings.mapper = "dupString" /\ IsDup(t)
    \/ pipe = "useCutomType" /\ t \in ProviderTypes \ {brokenT}
Fails(pipe, t) ==
    \/ pipe = "failDup" /\ IsDup(t)
    \/ pipe = "useCutomType" /\ t = brokenT

\* how many steps run for t: up to the first that stops or fails
StepsFor(t) ==
    IF \E k \in DOMAIN ExpectedPipes : Stops(ExpectedPipes[k], t) \/ Fails(ExpectedPipes[k], t)
    THEN CHOOSE k \in DOMAIN ExpectedPipes :
            /\ Stops(ExpectedPipes[k], t) \/ Fails(ExpectedPipes[k], t)
            /\ \A j \in 1..(k-1) : ~(Stops(ExpectedPipes[j], t) \/ Fails(ExpectedPipes[j], t))
    ELSE Len(ExpectedPipes)

\* the log positions at which the pipeline of a node begins, and the position
\* at which the pipeline that begins at i ends
PipelineStarts == {i \in DOMAIN pipeLog : pipeLog[i].step = "setID"}
PipelineEnd(i) ==
    IF \E j \in PipelineStarts : j > i
    THEN (CHOOSE j \in PipelineStarts : j > i /\ \A k \in PipelineStarts : k > i => j <= k) - 1
    ELSE Len(pipeLog)

IsStep(e) == e.step # "mapper"

\* the names of the steps logged from i to j
StepsLogged(i, j) ==
    LET steps == SelectSeq(SubSeq(pipeLog, i, j), IsStep)
    IN [k \in DOMAIN steps |-> steps[k].step]

\* C12: for every type visited during a build the steps run in the order
\* identity stamping, the caller's customizers in registration order
\* (cumulative over the WithSchemaCustomizers calls), user mapper, type
\* override, required-field marking.  A step runs if and only if every earlier
\* step for that node returned stop = false and no error; stop = true ends the
\* pipeline for that node only; an error from a step aborts the whole build.
C12_PipelineOrder ==
    /\ pipeLog # <<>> => pipeLog[1].step = "setID"
    /\ \A i \in PipelineStarts :
          LET j == PipelineEnd(i)
              t == pipeLog[i].t
              n == StepsFor(t)
          IN /\ \A k \in i..j : pipeLog[k].t = t
             /\ StepsLogged(i, j) = SubSeq(ExpectedPipes, 1, n)
             /\ Fails(ExpectedPipes[n], t) =>
                   \E c \in DOMAIN calls : calls[c].logLen = j /\ calls[c].err # NoError
             /\ ~Fails(ExpectedPipes[n], t) =>
                   \A c \in DOMAIN calls : calls[c].logLen = j => calls[c].err = NoError
    /\ \A c \in DOMAIN calls :
          calls[c].err # NoError =>
              /\ calls[c].ref = NilRef
              /\ \E i \in PipelineStarts :
                    PipelineEnd(i) = calls[c].logLen
                        /\ Fails(ExpectedPipes[StepsFor(pipeLog[i].t)], pipeLog[i].t)

OfStruct(e) == e.t.kind = "struct"

\* pair has two fields of type dup: the pipeline stops at stopDup for each of
\* them and runs in full for pair
C12_Witness ==
    /\ options = << <<"note">>, <<"stopDup">> >>
    /\ settings.mapper = "none"
    /\ Len(calls) = 1 /\ calls[1].t = pairT /\ calls[1].err = NoError
    /\ Len(pipeLog) = 27
    /\ [k \in DOMAIN SelectSeq(pipeLog, OfStruct) |->
            <<SelectSeq(pipeLog, OfStruct)[k].step, SelectSeq(pipeLog, OfStruct)[k].t.name[1]>>]
         = << <<"setID", "dup">>, <<"note", "dup">>, <<"stopDup", "dup">>,
              <<"setID", "dup">>, <<"note", "dup">>, <<"stopDup", "dup">>,
              <<"setID", "pair">>, <<"note", "pair">>, <<"stopDup", "pair">>,
              <<"tryMap", "pair">>, <<"mapper", "pair">>, <<"useCutomType", "pair">>,
              <<"markPropertiesRequired", "pair">> >>


\* ------------------------------------------------------------------------
\* C13
\* ------------------------------------------------------------------------
\* the schema an override step gives for t: the user mapper's, else the one
\* of the type's JSONSchema method; NilSchema when no override applies
OverrideOf(t) ==
    IF mapperResult(settings.mapper, t) # NilSchema THEN mapperResult(settings.mapper, t)
    ELSE IF t \in ProviderTypes \ {brokenT} THEN NewSchema("string")
    ELSE NilSchema

\* the fields of a struct type that become properties
PropertyFields(t) ==
    { f \in Range(t.fields) :
        /\ ~f.anonymous /\ f.name \notin LowerFirstNames /\ f.tag # <<"-">>
        /\ f.type.kind \notin {"func", "chan"} }

\* C13: when the user mapper returns a schema for a visited type, or the type
\* implements SchemaProvider, the pipeline of that node ends at the override
\* step (required-field marking does not run for it) and the node's content,
\* as a root, a property or a list item, is exactly the override's schema.
C13_OverrideIsFinal ==
    phase = "reflect" =>
        /\ \A i \in PipelineStarts :
              OverrideOf(pipeLog[i].t) # NilSchema =>
                  StepsLogged(i, PipelineEnd(i))
                      = (IF mapperResult(settings.mapper, pipeLog[i].t) # NilSchema
                         THEN <<"setID">> \o settings.customizers \o <<"tryMap">>
                         ELSE <<"setID">> \o settings.customizers \o <<"tryMap", "useCutomType">>)
        /\ \A k \in DOMAIN calls :
              LET root == StripPointers(calls[k].t)
              IN calls[k].err = NoError =>
                  /\ OverrideOf(root) # NilSchema =>
                        schemas[calls[k].id].value = OverrideOf(root)
                  /\ (root.kind = "slice" /\ OverrideOf(StripPointers(root.elem)) # NilSchema) =>
                        schemas[calls[k].id].value.items
                            = NewSchemaRef(<<>>, OverrideOf(StripPointers(root.elem)))
                  /\ IsPlainStruct(root) =>
                        \A f \in PropertyFields(root) :
                            OverrideOf(StripPointers(f.type)) # NilSchema =>
                                schemas[calls[k].id].value.properties[JsonName(f)]
                                    = NewSchemaRef(<<>>, OverrideOf(StripPointers(f.type)))

\* dup mapped by the user mapper as the two fields of pair, custom overridden
\* by its JSONSchema method as a field of holder
C13_Witness ==
    /\ phase = "reflect" /\ settings.mapper = "dupString"
    /\ Len(calls) = 2 /\ calls[1].t = pairT /\ calls[2].t = holderT
    /\ schemas[calls[1].id].value.properties["a"] = NewSchemaRef(<<>>, NewSchema("string"))
    /\ schemas[calls[1].id].value.properties["B"] = NewSchemaRef(<<>>, NewSchema("string"))
    /\ schemas[calls[2].id].value.properties["C"] = NewSchemaRef(<<>>, NewSchema("string"))
    /\ \E k \in DOMAIN pipeLog : pipeLog[k].step = "useCutomType" /\ pipeLog[k].t = customT
    /\ ~\E k \in DOMAIN pipeLog :
          pipeLog[k].step = "markPropertiesRequired" /\ pipeLog[k].t \in {dup, customT}


\* ------------------------------------------------------------------------
\* Table: reflectSchema calls for values behind one and two pointers
\* ------------------------------------------------------------------------
\* a struct with two fields of different anonymous struct types
twoAnonT == StructT(ExposePath, ExposePkg, <<"twoAnon">>,
                    <<Field("P", AnonA, <<>>, FALSE), Field("Q", AnonB, <<>>, FALSE)>>)

TableTypes ==
    {dup, pairT, PtrT(pairT), PtrT(PtrT(pairT)), dedup1, PtrT(PtrT(dedup1)),
     SliceT(dup), IntT, SliceT(FooT), FooListT, twoAnonT}

TableSettings ==
    [typeNamer : {"default", "short"}, mapper : {"none"},
     skipExtractSubSchemas : BOOLEAN, customizers : {<<>>}]

InitTable ==
    /\ phase = "reflect"
    /\ settings \in TableSettings
    /\ options = <<>>
    /\ schemas = <<>>
    /\ pipeLog = <<>>
    /\ calls = <<>>
    /\ IdleNaming /\ IdleRequired /\ IdleStruct /\ IdleDoc /\ IdleHandler /\ IdleWalk
    /\ IdlePasses /\ IdleApply /\ IdleGraph

NextTable == \E t \in TableTypes, reversed \in BOOLEAN : ReflectSchemaCall(t, reversed)

SpecTable == InitTable /\ [][NextTable]_vars

\* ------------------------------------------------------------------------
\* C14
\* ------------------------------------------------------------------------
\* C14: once an identifier is in the schema table, no later reflectSchema call
\* and no extraction pass removes the entry or replaces it with a different
\* definition: an entry a call finds stays as it is, and the definition a call
\* registers for its own type is still the entry when the call's extraction
\* pass has returned, not a reference in its place.
C14_TableEntriesAreStable ==
    [][ /\ \A id \in DOMAIN schemas : id \in DOMAIN schemas' /\ schemas'[id] = schemas[id]
        /\ Len(calls') = Len(calls) + 1 =>
              LET c == calls'[Len(calls')]
              IN (~c.known /\ c.err = NoError) =>
                    /\ c.id \in DOMAIN schemas'
                    /\ schemas'[c.id] # NewSchemaRef(RefPrefix \o c.id, NilSchema) ]_vars


\* ------------------------------------------------------------------------
\* NewHandler
\* ------------------------------------------------------------------------
swaggerJSON == <<"/swagger.json">>
NoSpec == [noSpec |-> TRUE]

\* settings.reflectSettings of the handlerSettings hs
reflectSettingsOf(hs) ==
    [typeNamer |-> hs.typeNamer, mapper |-> hs.mapper,
     skipExtractSubSchemas |-> hs.skipExtractSubSchemas, customizers |-> hs.customizers]

\* SkipExtractSubSchemas() applied to s
SkipExtractSubSchemas(s) == [s EXCEPT !.skipExtractSubSchemas = TRUE]

\* the settings ReflectSpec starts from when it is given no option
DefaultReflectSettings ==
    [typeNamer |-> "default", mapper |-> "none", skipExtractSubSchemas |-> FALSE,
     customizers |-> <<>>]

\* what is kept of a ReflectSpec call NewHandler made
Reflected(r) == [doc |-> r.doc, err |-> r.err, panic |-> r.panic]

\* the three ways NewHandler ends: it panics, it returns (nil, err), it
\* returns a handler that validates against validationSpec and serves spec at
\* swaggerPath and uiSpec below swaggerUIPath
Panicked(reflected) ==
    [handler |-> FALSE, err |-> NoError, panic |-> TRUE, validationSpec |-> NoSpec,
     spec |-> NoSpec, uiSpec |-> NoSpec, reflected |-> reflected]
Failed(err, reflected) ==
    [handler |-> FALSE, err |-> err, panic |-> FALSE, validationSpec |-> NoSpec,
     spec |-> NoSpec, uiSpec |-> NoSpec, reflected |-> reflected]
Built(validationSpec, spec, uiSpec, reflected) ==
    [handler |-> TRUE, err |-> NoError, panic |-> FALSE, validationSpec |-> validationSpec,
     spec |-> spec, uiSpec |-> uiSpec, reflected |-> reflected]

\* NewSwaggerUIHandler(defaultSpec, fns) once its ReflectSpec returned ui
handlerAfterUI(validationSpec, spec, reflected, ui) ==
    IF ui.panic \/ ui.err # NoError THEN Panicked(Append(reflected, Reflected(ui)))
    ELSE Built(validationSpec, spec, ui.doc, Append(reflected, Reflected(ui)))

\* NewHandler from "if settings.swaggerUIPath != """ on
handlerWithUI(fns, hs, reversed, validationSpec, spec, reflected) ==
    IF hs.swaggerUIPath = <<>> THEN Built(validationSpec, spec, NoSpec, reflected)
    ELSE handlerAfterUI(validationSpec, spec, reflected,
            ReflectSpec(hs.defaultSpec, fns, DefaultReflectSettings, <<>>, reversed))

\* NewHandler once the ReflectSpec for swaggerPath returned second
handlerAfterSecond(fns, hs, reversed, first, second) ==
    IF second.panic THEN Panicked(<<Reflected(first), Reflected(second)>>)
    ELSE IF second.err # NoError
    THEN Failed(<<"failed to reflect spec: ">> \o second.err,
                <<Reflected(first), Reflected(second)>>)
    ELSE handlerWithUI(fns, hs, reversed, first.doc, second.doc,
                       <<Reflected(first), Reflected(second)>>)

\* NewHandler once the ReflectSpec for validationSpec returned first
handlerAfterFirst(fns, hs, reversed, first) ==
    IF first.panic THEN Panicked(<<Reflected(first)>>)
    ELSE IF first.err # NoError THEN Failed(first.err, <<Reflected(first)>>)
    ELSE IF hs.swaggerPath # <<>>
    THEN handlerAfterSecond(fns, hs, reversed, first,
            ReflectSpec(hs.defaultSpec, fns, reflectSettingsOf(hs), <<>>, reversed))
    ELSE handlerWithUI(fns, hs, reversed, first.doc, NoSpec, <<Reflected(first)>>)

\* NewHandler(fns, options...) with the options applied to hs
NewHandler(fns, hs, reversed) ==
    handlerAfterFirst(fns, hs, reversed,
        ReflectSpec(hs.defaultSpec, fns, SkipExtractSubSchemas(reflectSettingsOf(hs)),
                    <<>>, reversed))

\* ------------------------------------------------------------------------
\* Handler: NewHandler, then requests
\* ------------------------------------------------------------------------
HandlerSettings ==
    [typeNamer : {"default"}, mapper : {"none", "brokenString"},
     skipExtractSubSchemas : {FALSE}, customizers : {<<>>, <<"failDup">>},
     errorHandler : {"nil", "handles", "declines"},
     defaultSpec : {EmptyDocument},
     encoding : {{"*/*", "application/json"}},
     swaggerPath : {swaggerJSON, <<>>},
     swaggerUIPath : {<<>>, <<"/ui">>}]

HandlerFunctions ==
    { <<Func(pCounterInc, IntT, IntT)>>,
      <<Func(pCounterInc, pairT, voidT)>>,
      <<Func(pCounterInc, brokenT, IntT)>>,
      <<Func(pCounterInc, IntT, IntT), Func(pCounterGet, voidT, brokenT)>> }

InitHandler ==
    /\ phase = "handler"
    /\ hSettings \in HandlerSettings
    /\ hFns \in HandlerFunctions
    /\ handler = <<>>
    /\ exchange = <<>>
    /\ IdleNaming /\ IdleRequired /\ IdleReflect /\ IdleStruct /\ IdleDoc /\ IdleWalk
    /\ IdlePasses /\ IdleApply /\ IdleGraph

NewHandlerReturn(h) ==
    /\ handler' = h
    /\ phase' = IF h.panic THEN "handler-panic"
                ELSE IF h.err # NoError THEN "handler-failed" ELSE "serving"

NewHandlerCall(reversed) ==
    /\ phase = "handler"
    /\ NewHandlerReturn(NewHandler(hFns, hSettings, reversed))
    /\ UNCHANGED <<hSettings, hFns, exchange, namingVars, requiredVars, reflectVars,
                   structVars, docVars, walkVars, passVars, applyVars, graphVars>>


\* the first key "range settings.encoding" yields is any key of the map
MimeTypes == {"", "application/json", "text/xml"}
Requests == [method : {"POST", "GET"}, contentType : MimeTypes, accept : MimeTypes]

\* error values: errors.New, an error that wraps several others (fmt.Errorf
\* with %w verbs, errors.Join), and SetErrCode
ErrApplication == [kind |-> "new", text |-> "application error"]
errOther == [kind |-> "new", text |-> "other"]
Wrapping(errs) == [kind |-> "wrapping", errs |-> errs]

\* SetErrCode(err, code): an *ErrWithCode, which has Code and Error and no
\* Unwrap
SetErrCode(err, code) == [kind |-> "withCode", code |-> code, err |-> err]

\* errors.Is(err, target): err or an error it unwraps to is target
RECURSIVE errorsIs(_, _)
errorsIs(err, target) ==
    \/ err = target
    \/ err.kind = "wrapping" /\ \E i \in DOMAIN err.errs : errorsIs(err.errs[i], target)

\* GetErrCode(err): the code of the first error of the chain that has one
RECURSIVE GetErrCode(_)
GetErrCode(err) ==
    IF err.kind = "withCode" THEN [code |-> err.code, ok |-> TRUE]
    ELSE IF err.kind = "wrapping"
              /\ \E i \in DOMAIN err.errs : GetErrCode(err.errs[i]).ok
    THEN GetErrCode(err.errs[CHOOSE i \in DOMAIN err.errs :
                                /\ GetErrCode(err.errs[i]).ok
                                /\ \A j \in 1..(i - 1) : ~GetErrCode(err.errs[j]).ok])
    ELSE [code |-> "", ok |-> FALSE]

\* the errors an exposed function returns
ErrorValues ==
    { errOther, ErrApplication, SetErrCode(errOther, "E1"),
      SetErrCode(ErrApplication, "E1"),
      Wrapping(<<ErrApplication, SetErrCode(errOther, "E1")>>) }

\* what fn.Apply returns: a result, Void{}, or an error; isApplication and
\* hasCode are what the request closure finds out about the error
ApplyOutcomes(fn) ==
    (IF Res(fn) = voidT THEN {[kind |-> "void"]} ELSE {[kind |-> "value"]})
        \cup { [kind |-> "error", err |-> e,
                isApplication |-> errorsIs(e, ErrApplication),
                hasCode |-> GetErrCode(e).ok] : e \in ErrorValues }

NoBody == [kind |-> "none", message |-> FALSE, code |-> FALSE]

\* http.Error(w, text, status)
httpError(status) ==
    [status |-> status, by |-> "handler", panic |-> FALSE, applied |-> FALSE,
     body |-> [kind |-> "text", message |-> FALSE, code |-> FALSE]]

\* the error branch of the request closure with a response encoding
encodedError(hs, outcome) ==
    IF hs.errorHandler = "handles"
    THEN [status |-> 0, by |-> "errorHandler", panic |-> FALSE, applied |-> TRUE,
          body |-> NoBody]
    ELSE [status |-> IF outcome.isApplication THEN 422 ELSE 500,
          by |-> "handler", panic |-> FALSE, applied |-> TRUE,
          body |-> [kind |-> "encoded", message |-> TRUE, code |-> outcome.hasCode]]

\* the error branch without a response encoding: settings.errorHandler is
\* called without a nil check, then http.Error(w, err.Error(), 500)
plainError(hs, outcome) ==
    IF hs.errorHandler = "nil"
    THEN [status |-> 0, by |-> "none", panic |-> TRUE, applied |-> TRUE, body |-> NoBody]
    ELSE IF hs.errorHandler = "handles"
    THEN [status |-> 0, by |-> "errorHandler", panic |-> FALSE, applied |-> TRUE,
          body |-> NoBody]
    ELSE [status |-> 500, by |-> "handler", panic |-> FALSE, applied |-> TRUE,
          body |-> [kind |-> "text", message |-> TRUE, code |-> FALSE]]

\* the closure from "res, err := fn.Apply" on
applied(hs, accept, outcome) ==
    IF outcome.kind = "error"
    THEN (IF accept \in hs.encoding THEN encodedError(hs, outcome) ELSE plainError(hs, outcome))
    ELSE IF outcome.kind = "void"
    THEN [status |-> 200, by |-> "handler", panic |-> FALSE, applied |-> TRUE, body |-> NoBody]
    ELSE IF accept \notin hs.encoding
    THEN [httpError(400) EXCEPT !.applied = TRUE]
    ELSE [status |-> 200, by |-> "handler", panic |-> FALSE, applied |-> TRUE,
          body |-> [kind |-> "encoded", message |-> FALSE, code |-> FALSE]]

\* the closure once the content type is known
decoded(hs, req, contentType, outcome) ==
    IF contentType \notin hs.encoding THEN httpError(400)
    ELSE applied(hs, IF req.accept = "" THEN contentType ELSE req.accept, outcome)

\* the closure NewHandler registers at fn.Path()
serveRPC(hs, req, first, outcome) ==
    IF req.method # "POST" THEN httpError(400)
    ELSE decoded(hs, req, IF req.contentType = "" THEN first ELSE req.contentType, outcome)

Serve(i, req, first, outcome) ==
    /\ phase = "serving"
    /\ exchange' = [fn |-> i, request |-> req, outcome |-> outcome,
                    response |-> serveRPC(hSettings, req, first, outcome)]
    /\ UNCHANGED <<phase, hSettings, hFns, handler, namingVars, requiredVars, reflectVars,
                   structVars, docVars, walkVars, passVars, applyVars, graphVars>>

NextHandler ==
    \/ \E reversed \in BOOLEAN : NewHandlerCall(reversed)
    \/ \E i \in DOMAIN hFns, req \in Requests, first \in hSettings.encoding :
          \E outcome \in ApplyOutcomes(hFns[i]) : Serve(i, req, first, outcome)

SpecHandler == InitHandler /\ [][NextHandler]_vars

\* ------------------------------------------------------------------------
\* C15
\* ------------------------------------------------------------------------
IsPrefix(p, q) == Len(p) <= Len(q) /\ SubSeq(q, 1, Len(p)) = p

\* the request and result types ReflectSpec reflects for fns
EndpointTypes(fns) ==
    {Req(fns[i]) : i \in DOMAIN fns} \cup {Res(fns[i]) : i \in DOMAIN fns}

\* C15: if reflecting the request or response type of an endpoint fails,
\* ReflectSpec returns an empty document and a wrapped error that names the
\* failing type, and NewHandler returns that error and no handler; a handler
\* NewHandler returns serves documents that hold every endpoint.
C15_FailingBuildGivesNoHandler ==
    phase \in {"handler-panic", "handler-failed", "serving"} =>
        /\ \A k \in DOMAIN handler.reflected :
              handler.reflected[k].err # NoError =>
                  /\ handler.reflected[k].doc = EmptyDocument
                  /\ \E t \in EndpointTypes(hFns) :
                        IsPrefix(<<"failed to reflect openapi spec: ", "failed to reflect schema ">>
                                    \o TypeString(t) \o <<"; ">>,
                                 handler.reflected[k].err)
                  /\ ~handler.panic
                  /\ ~handler.handler
                  /\ handler.err \in {handler.reflected[k].err,
                                      <<"failed to reflect spec: ">> \o handler.reflected[k].err}
        /\ handler.handler =>
              \A d \in {handler.validationSpec, handler.spec, handler.uiSpec} \ {NoSpec} :
                  DOMAIN d.paths = {hFns[i].path : i \in DOMAIN hFns}

\* ------------------------------------------------------------------------
\* C16
\* ------------------------------------------------------------------------
\* C16: when the exposed function returns an error, a configured ErrorHandler
\* that returns handled = true ends the response; otherwise the status is 422
\* if the error is ErrApplication and 500 if not, and the body carries the
\* message and, when the error was marked with SetErrCode, its code.  This
\* holds whatever the Accept header names and without an ErrorHandler.
C16_ErrorResponse ==
    (phase = "serving" /\ exchange # <<>>
        /\ exchange.response.applied /\ exchange.outcome.kind = "error") =>
            IF hSettings.errorHandler = "handles"
            THEN exchange.response.by = "errorHandler"
            ELSE /\ ~exchange.response.panic
                 /\ exchange.response.status = (IF exchange.outcome.isApplication THEN 422 ELSE 500)
                 /\ exchange.response.body.message
                 /\ exchange.outcome.hasCode => exchange.response.body.code


\* ------------------------------------------------------------------------
\* Walk: one call of walkSchema with a visitor of TestWalkSchema
\* ------------------------------------------------------------------------
\* a schema that holds nothing but its $id
Node(id) == NewSchemaRef(<<>>, [NewSchema("") EXCEPT !.extensions = ("$id" :> id)])

\* a reference without a value
Placeholder(id) == NewSchemaRef(RefPrefix \o <<id>>, NilSchema)

\* schemaJson of TestWalkSchema
walkFixture ==
    [Node("root") EXCEPT
        !.value.allOf = <<Node("allOf1"),
                          [Node("allOfNested") EXCEPT !.value.anyOf = <<Node("anyOf1")>>]>>,
        !.value.oneOf = <<Node("oneOf1"), Node("oneOf2")>>,
        !.value.properties =
            ("prop1" :> [Node("prop1") EXCEPT !.value.type = "array",
                                              !.value.items = Node("item1")])
            @@ ("prop2" :> [Node("prop2") EXCEPT
                               !.value.properties = ("prop3" :> Node("nestedProp"))])]

WalkRoots ==
    { walkFixture,
      NewSchemaRef(<<>>, NilSchema),
      [Node("root") EXCEPT
          !.value.allOf = <<Placeholder("allOf1"), Node("allOfNested")>>,
          !.value.items = Placeholder("item1"),
          !.value.properties = ("prop1" :> Placeholder("prop1")) @@ ("prop2" :> Node("prop2"))],
      [Node("root") EXCEPT
          !.value.anyOf = <<[Node("anyOf1") EXCEPT !.value.items = Node("item1")]>>,
          !.value.items = [Node("prop1") EXCEPT !.value.oneOf = <<Node("oneOf1")>>]] }

WalkIds ==
    {"root", "allOf1", "allOfNested", "anyOf1", "oneOf1", "oneOf2", "prop1", "item1",
     "prop2", "nestedProp"}

WalkVisitors ==
    [replace : {{}, {"nestedProp"}, {"root"}, {"item1", "allOfNested"}},
     failAt : {{}} \cup {{id} : id \in WalkIds}]

InitWalk ==
    /\ phase = "walk"
    /\ wkRoot \in WalkRoots
    /\ wkVisitor \in WalkVisitors
    /\ wkVisited = <<>>
    /\ wkResult = <<>>
    /\ IdleNaming /\ IdleRequired /\ IdleReflect /\ IdleStruct /\ IdleDoc /\ IdleHandler
    /\ IdlePasses /\ IdleApply /\ IdleGraph

WalkSchemaReturn(w) ==
    /\ wkResult' = [ref |-> w.ref, err |-> w.err]
    /\ wkVisited' = w.table.visited
    /\ phase' = "walk-done"

\* walkSchema(ref, visitor); reversed chooses the order in which the walk
\* ranges over Properties
WalkSchemaCall(reversed) ==
    /\ phase = "walk"
    /\ WalkSchemaReturn(walkSchema(wkRoot,
                                   [visitor |-> "test", visited |-> <<>>,
                                    replace |-> wkVisitor.replace, failAt |-> wkVisitor.failAt],
                                   reversed))
    /\ UNCHANGED <<wkRoot, wkVisitor, namingVars, requiredVars, reflectVars, structVars,
                   docVars, handlerVars, passVars, applyVars, graphVars>>

NextWalk == \E reversed \in BOOLEAN : WalkSchemaCall(reversed)

SpecWalk == InitWalk /\ [][NextWalk]_vars

\* ------------------------------------------------------------------------
\* C17
\* ------------------------------------------------------------------------
\* the children of a schema in the order allOf, anyOf, oneOf, list item; its
\* properties come last, in no fixed order
OrderedKids(s) ==
    s.allOf \o s.anyOf \o s.oneOf \o (IF s.items = NilRef THEN <<>> ELSE <<s.items>>)
PropertyKids(s) == {s.properties[n] : n \in DOMAIN s.properties}

\* the nodes with a value in the tree below ref, ref included, and their ids
RECURSIVE NodesIn(_)
NodesIn(ref) ==
    IF ref.value = NilSchema THEN {}
    ELSE {ref} \cup UNION {NodesIn(k) : k \in Range(OrderedKids(ref.value)) \cup PropertyKids(ref.value)}
IdsIn(ref) == {idOf(n) : n \in NodesIn(ref)}

\* the position of the visit of the node id
Pos(id) == CHOOSE i \in DOMAIN wkVisited : wkVisited[i] = id

C19_RootIsNotReplaced ==
    (phase = "walk-done" /\ wkResult.err = NoError /\ wkRoot.value # NilSchema) =>
        /\ wkResult.ref.ref = wkRoot.ref
        /\ wkResult.ref.value # NilSchema

\* ------------------------------------------------------------------------
\* C20
\* ------------------------------------------------------------------------
\* the branch of ref that leads to the node id, and the positional context
\* of that branch
BranchTo(ref, id) ==
    LET s == ref.value
    IN IF \E k \in DOMAIN s.allOf : id \in IdsIn(s.allOf[k])
       THEN [context |-> <<"allOf: ">>,
             child |-> s.allOf[CHOOSE k \in DOMAIN s.allOf : id \in IdsIn(s.allOf[k])]]
       ELSE IF \E k \in DOMAIN s.anyOf : id \in IdsIn(s.anyOf[k])
       THEN [context |-> <<"anyOf: ">>,
             child |-> s.anyOf[CHOOSE k \in DOMAIN s.anyOf : id \in IdsIn(s.anyOf[k])]]
       ELSE IF \E k \in DOMAIN s.oneOf : id \in IdsIn(s.oneOf[k])
       THEN [context |-> <<"oneOf: ">>,
             child |-> s.oneOf[CHOOSE k \in DOMAIN s.oneOf : id \in IdsIn(s.oneOf[k])]]
       ELSE IF s.items # NilRef /\ id \in IdsIn(s.items)
       THEN [context |-> <<"items: ">>, child |-> s.items]
       ELSE LET n == CHOOSE m \in DOMAIN s.properties : id \in IdsIn(s.properties[m])
            IN [context |-> <<"prop ", n, ": ">>, child |-> s.properties[n]]

RECURSIVE ContextOf(_, _)
ContextOf(ref, id) ==
    IF idOf(ref) = id THEN <<>>
    ELSE BranchTo(ref, id).context \o ContextOf(BranchTo(ref, id).child, id)

\* C20: if the visitor fails at a node, walkSchema returns an error, visits
\* no further node, and the error is the visitor's error wrapped, outermost
\* first, with the context of each branch through which the node was reached:
\* the keyword of the composition branch for a composition member, "items: "
\* for a list item, "prop <name>: " for a property; a failure at the root is
\* returned unwrapped.
C20_VisitorErrorIsWrapped ==
    (phase = "walk-done" /\ wkVisitor.failAt \cap IdsIn(wkRoot) # {}) =>
        \A f \in wkVisitor.failAt :
            /\ wkResult.err # NoError
            /\ wkVisited # <<>> /\ wkVisited[Len(wkVisited)] = f
            /\ wkResult.err = ContextOf(wkRoot, f) \o <<"test">>


\* ------------------------------------------------------------------------
\* C18
\* ------------------------------------------------------------------------
\* every node directly below a schema: composition members, list item,
\* properties and the map-value schema
AllKids(s) ==
    Range(OrderedKids(s)) \cup PropertyKids(s)
        \cup (IF s.additional = NilRef THEN {} ELSE {s.additional})

RECURSIVE Descendants(_)
Descendants(ref) ==
    IF ref = NilRef \/ ref.value = NilSchema THEN {}
    ELSE UNION {{k} \cup Descendants(k) : k \in AllKids(ref.value)}

\* a node that carries a pending identifier
Pending(ref) == ref.value # NilSchema /\ "$id" \in DOMAIN ref.value.extensions

\* C18: after the extraction pass over a freshly built root, every descendant
\* that carried a pending identifier, wherever it sits (composition member,
\* list item, property or map-value schema), is replaced in its parent by the
\* reference "#/components/schemas/<id>", and the table holds an entry for
\* <id>.
C18_PendingNodesAreExtracted ==
    (phase = "reflect" /\ ~settings.skipExtractSubSchemas) =>
        \A k \in DOMAIN calls :
            (calls[k].err = NoError /\ ~calls[k].known) =>
                \A d \in Descendants(schemas[calls[k].id]) :
                    /\ ~Pending(d)
                    /\ (d.value = NilSchema /\ IsPrefix(RefPrefix, d.ref)) =>
                          Tail(d.ref) \in DOMAIN schemas

\* ------------------------------------------------------------------------
\* Passes: several ReflectSpec calls with one template and one function list
\* ------------------------------------------------------------------------
MaxPasses == 3

\* the reflectSettings of the three ReflectSpec calls NewHandler and
\* NewSwaggerUIHandler make, for the configured settings s
passSettings(kind, s) ==
    CASE kind = "validation" -> SkipExtractSubSchemas(s)
      [] kind = "served" -> s
      [] kind = "ui" -> DefaultReflectSettings

PassKinds == {"validation", "served", "ui"}

PassSettings ==
    [typeNamer : {"default", "short"}, mapper : {"none", "dupString"},
     skipExtractSubSchemas : {FALSE}, customizers : {<<>>}]

PassFunctions ==
    { <<Func(pCounterInc, pairT, IntT)>>,
      <<Func(pCounterInc, dup, voidT)>>,
      <<Func(pCounterInc, IntT, IntT), Func(pCounterGet, voidT, pairT)>>,
      <<Func(pCounterGet, voidT, IntT)>> }

\* root is a copy of the caller's openapi3.T: a document a call returned
\* holds the template's Paths when the template has them, and Paths of its
\* own otherwise
sharesPaths(root, r) == root.paths # NilPaths /\ ~r.panic /\ r.err = NoError

\* an earlier document as it reads once a later call ended as r
readAfter(pass, r) ==
    IF pass.sharesPaths THEN [pass EXCEPT !.doc.paths = r.template.paths] ELSE pass

InitPasses ==
    /\ phase = "passes"
    /\ settings \in PassSettings
    /\ docFns \in PassFunctions
    /\ docTemplate \in DocTemplates
    /\ doc = EmptyDocument
    /\ docErr = NoError
    /\ passes = <<>>
    /\ options = <<>> /\ schemas = <<>> /\ pipeLog = <<>> /\ calls = <<>>
    /\ IdleNaming /\ IdleRequired /\ IdleStruct /\ IdleHandler /\ IdleWalk /\ IdleApply /\ IdleGraph

ReflectPassReturn(kind, r) ==
    /\ doc' = r.doc
    /\ docErr' = r.err
    /\ docTemplate' = r.template
    /\ schemas' = r.table
    /\ passes' = Append([i \in DOMAIN passes |-> readAfter(passes[i], r)],
                        [kind |-> kind, doc |-> r.doc, returned |-> r.doc, err |-> r.err,
                         panic |-> r.panic, table |-> r.table,
                         sharesPaths |-> sharesPaths(docTemplate, r)])

ReflectPass(kind, reversed) ==
    /\ phase = "passes"
    /\ Len(passes) < MaxPasses
    /\ ReflectPassReturn(kind, ReflectSpec(docTemplate, docFns, passSettings(kind, settings),
                                           <<>>, reversed))
    /\ UNCHANGED <<phase, docFns, settings, options, pipeLog, calls, namingVars,
                   requiredVars, structVars, handlerVars, walkVars, applyVars, graphVars>>

NextPasses == \E kind \in PassKinds, reversed \in BOOLEAN : ReflectPass(kind, reversed)

SpecPasses == InitPasses /\ [][NextPasses]_vars

\* ------------------------------------------------------------------------
\* C21
\* ------------------------------------------------------------------------
\* C21: build passes are isolated: a ReflectSpec call leaves the caller's
\* template as it was, and leaves every document an earlier call returned,
\* with its paths, operations and table, as it was returned.
C21_PassesAreIsolated ==
    [][ /\ docTemplate' = docTemplate
        /\ \A i \in DOMAIN passes :
              /\ passes'[i].doc = passes[i].doc
              /\ passes'[i].table = passes[i].table ]_vars

\* ------------------------------------------------------------------------
\* Apply: functionDefinition.Apply and structFunctionDefinition.Apply
\* ------------------------------------------------------------------------
\* what Apply returns, and the steps it took
applyReturn(steps, res, err) == [steps |-> steps, res |-> res, err |-> err, panic |-> FALSE]
applyPanic(steps) == [steps |-> steps, res |-> "none", err |-> "none", panic |-> TRUE]

\* def.fn(ctx, req) or def.method.Call(args): outcome is what the exposed
\* function returns
invoke(outcome, steps) ==
    applyReturn(Append(steps, [step |-> "invoke"]),
                IF outcome.kind = "error" THEN "zero" ELSE outcome.kind,
                IF outcome.kind = "error" THEN "function" ELSE "nil")

\* spec.Paths.Find(def.Path()).Post.RequestBody.Value.Content
\*     .Get("application/json").Schema.Ref, without the prefix
requestSchemaId(fn, spec) ==
    TrimPrefix(spec.paths[fn.path].post.requestBody.ref, "#/components/schemas/")

\* the lookups of the validate branch dereference a nil pointer when the
\* document has no POST operation with a request body at the path, no entry
\* for the identifier, or an entry without a value
lookupPanics(fn, spec) ==
    \/ spec.paths = NilPaths
    \/ fn.path \notin DOMAIN spec.paths
    \/ spec.paths[fn.path].post = NilOperation
    \/ spec.paths[fn.path].post.requestBody = NilRef
    \/ spec.components = NilComponents
    \/ requestSchemaId(fn, spec) \notin DOMAIN spec.components.schemas
    \/ spec.components.schemas[requestSchemaId(fn, spec)] = NilRef
    \/ spec.components.schemas[requestSchemaId(fn, spec)].value = NilSchema

\* Apply from "if def.settings.validate" on, invoking whatever VisitJSON says
validatedIgnoringError(fn, validate, spec, valid, outcome, steps) ==
    IF ~validate THEN invoke(outcome, steps)
    ELSE IF lookupPanics(fn, spec) THEN applyPanic(steps)
    ELSE invoke(outcome, Append(steps, [step |-> "validate", ok |-> valid,
                                        schema |-> requestSchemaId(fn, spec)]))

\* Apply from "if def.settings.validate" on; valid is whether VisitJSON
\* accepts the decoded request, which depends on the payload
validated(fn, validate, spec, valid, outcome, steps) ==
    IF ~validate THEN invoke(outcome, steps)
    ELSE IF lookupPanics(fn, spec) THEN applyPanic(steps)
    ELSE IF ~valid
    THEN applyReturn(Append(steps, [step |-> "validate", ok |-> FALSE,
                                    schema |-> requestSchemaId(fn, spec)]),
                     "zero", "validation")
    ELSE invoke(outcome, Append(steps, [step |-> "validate", ok |-> TRUE,
                                        schema |-> requestSchemaId(fn, spec)]))

\* Apply from dec.Decode on; decodes is whether the decoder accepts the body
decodedRequest(fn, validate, spec, decodes, valid, outcome) ==
    IF ~decodes THEN applyReturn(<<[step |-> "decode", ok |-> FALSE]>>, "zero", "decode")
    ELSE validated(fn, validate, spec, valid, outcome, <<[step |-> "decode", ok |-> TRUE]>>)

\* whether Apply takes the branch that invokes without a request
takesNoRequest(fn) == IF fn.def = "struct" THEN fn.isNullary ELSE Req(fn) = voidT

\* def.Apply(ctx, dec, spec)
Apply(fn, validate, spec, decodes, valid, outcome) ==
    IF takesNoRequest(fn) THEN invoke(outcome, <<>>)
    ELSE decodedRequest(fn, validate, spec, decodes, valid, outcome)

ApplyFunctions ==
    { Func(pCounterInc, pairT, IntT), Func(pCounterInc, IntT, voidT),
      Func(pCounterGet, voidT, IntT) }
        \cup UNION { Range(l) : l \in DiscoveredLists }

\* the validation documents NewHandler builds for fn and the templates
ValidationSpecs(fn) ==
    { ReflectSpec(t, <<fn>>, SkipExtractSubSchemas(DefaultReflectSettings), <<>>, FALSE).doc :
        t \in DocTemplates }

InitApply ==
    /\ phase = "apply"
    /\ apFn \in [fn : ApplyFunctions, validate : BOOLEAN]
    /\ apSpec \in ValidationSpecs(apFn.fn)
    /\ apCall = <<>>
    /\ IdleNaming /\ IdleRequired /\ IdleReflect /\ IdleStruct /\ IdleDoc /\ IdleHandler
    /\ IdleWalk /\ IdlePasses /\ IdleGraph

ApplyCall(decodes, valid, outcome) ==
    /\ phase = "apply"
    /\ apCall' = [decodes |-> decodes, valid |-> valid, outcome |-> outcome,
                  return |-> Apply(apFn.fn, apFn.validate, apSpec, decodes, valid, outcome)]
    /\ UNCHANGED <<phase, apFn, apSpec, namingVars, requiredVars, reflectVars, structVars,
                   docVars, handlerVars, walkVars, passVars, graphVars>>

NextApply ==
    \E decodes \in BOOLEAN, valid \in BOOLEAN, outcome \in ApplyOutcomes(apFn.fn) :
        ApplyCall(decodes, valid, outcome)

SpecApply == InitApply /\ [][NextApply]_vars

\* ------------------------------------------------------------------------
\* C22
\* ------------------------------------------------------------------------
\* the positions of the steps of the given kind in the last Apply call
StepsOf(kind) ==
    {i \in DOMAIN apCall.return.steps : apCall.return.steps[i].step = kind}

StampOf(ref) ==
    IF ref = NilRef \/ ref.value = NilSchema THEN <<>>
    ELSE IF "$id" \in DOMAIN ref.value.extensions THEN ref.value.extensions["$id"]
    ELSE <<>>

\* the pending identifier a nested node of type t has to carry
ExpectedStamp(t) ==
    IF StripPointers(t).kind = "struct"
    THEN <<"#">> \o typeNamer(settings.typeNamer, StripPointers(t))
    ELSE <<>>

\* every node below the node ref of type t carries the pending identifier of
\* its type if it is a struct, and none otherwise
RECURSIVE NestedAreStamped(_, _)
NestedAreStamped(t, ref) ==
    LET s == StripPointers(t) IN
    CASE s.kind = "struct" ->
            \A f \in PropertyFields(s) :
                /\ JsonName(f) \in DOMAIN ref.value.properties
                /\ StampOf(ref.value.properties[JsonName(f)]) = ExpectedStamp(f.type)
                /\ NestedAreStamped(f.type, ref.value.properties[JsonName(f)])
      [] s.kind = "slice" ->
            /\ StampOf(ref.value.items) = ExpectedStamp(s.elem)
            /\ NestedAreStamped(s.elem, ref.value.items)
      [] s.kind = "map" ->
            /\ StampOf(ref.value.additional) = ExpectedStamp(s.elem)
            /\ NestedAreStamped(s.elem, ref.value.additional)
      [] OTHER -> TRUE

\* C23: identity stamping attaches the pending identifier '#<Name(t)>' to a
\* node if and only if the node is a nested occurrence of a struct type: the
\* root node of a build carries none, every nested struct node carries the one
\* of its type, and no other node carries one.
C23_StampsNestedStructsOnly ==
    (phase = "reflect" /\ settings.skipExtractSubSchemas) =>
        \A i \in DOMAIN calls :
            (~calls[i].known /\ calls[i].err = NoError) =>
                /\ StampOf(schemas[calls[i].id]) = <<>>
                /\ NestedAreStamped(calls[i].t, schemas[calls[i].id])

\* ------------------------------------------------------------------------
\* C24
\* ------------------------------------------------------------------------
\* the schema references the operations of the returned document use
OperationRefs ==
    IF doc.paths = NilPaths THEN {}
    ELSE UNION { {doc.paths[p].post.requestBody}
                    \cup {doc.paths[p].post.responses[c] :
                            c \in DOMAIN doc.paths[p].post.responses} :
                 p \in {q \in DOMAIN doc.paths : doc.paths[q].post # NilOperation} } \ {NilRef}

\* the nodes of the entries of the returned document's components/schemas
ComponentNodes ==
    IF doc.components = NilComponents THEN {}
    ELSE UNION { {doc.components.schemas[id]} \cup Descendants(doc.components.schemas[id]) :
                 id \in DOMAIN doc.components.schemas } \ {NilRef}

\* C24: in the document ReflectSpec returns, every reference
\* '#/components/schemas/<id>' used by an operation's request body or
\* response, or inside an entry of components/schemas, names an entry of that
\* document's components/schemas, whatever the template.
C24_ReferencesResolve ==
    (phase = "doc-done" /\ docErr = NoError) =>
        \A r \in OperationRefs \cup ComponentNodes :
            (r.value = NilSchema /\ IsPrefix(RefPrefix, r.ref)) =>
                /\ doc.components # NilComponents
                /\ Tail(r.ref) \in DOMAIN doc.components.schemas

\* ------------------------------------------------------------------------
\* Traversal: Struct over an object graph, one traverseStruct call per step
\* ------------------------------------------------------------------------
\* the calls of traverseStruct that fit on the goroutine stack
MaxDepth == 3

\* the structs of the graph live at addresses; a field holds a pointer to a
\* struct, an interface holding such a pointer, a nil pointer or an int
Addrs == {1, 2}
PtrTo(a) == [kind |-> "ptr", nil |-> FALSE, addr |-> a]
IfaceTo(a) == [kind |-> "interface", nil |-> FALSE, addr |-> a]

GraphFields ==
    { <<>>,
      <<FieldV(nSub, NilPtrV)>>,
      <<FieldV(nSub, IntV)>>,
      <<FieldV(nSub, PtrTo(1))>>,
      <<FieldV(nSub, PtrTo(2))>>,
      <<FieldV(nSub, IfaceTo(1))>>,
      <<FieldV(nHidden, PtrTo(1)), FieldV(nFooBar, PtrTo(2))>> }

GraphNodes == { StructV(ms, fs) : ms \in {<<mInc>>, <<mCount, mInc>>}, fs \in GraphFields }

\* the struct a field value leads traverseStruct to: 0 when the call returns
\* at once (nil pointer, nil interface, not a struct)
targetOf(value) ==
    IF value.kind \in {"ptr", "interface"} /\ ~value.nil THEN value.addr ELSE 0

\* traverseStruct(path, v, ...) for a pointer to the struct at address a, up to
\* the loop over the fields: the methods are registered and the call is the
\* innermost one in progress
entered(path, a) ==
    LET v == stHeap[a]
        methods == getExposableMethods(v, TRUE)
    IN /\ functions' = registerMethods(path, methods, Len(visits) + 1, functions)
       /\ visits' = Append(visits, [path |-> path, node |-> v, canAddr |-> TRUE,
                                    found |-> [k \in DOMAIN methods |-> methods[k].name]])

InitTraverse ==
    /\ phase = "traverse"
    /\ stHeap \in [Addrs -> GraphNodes]
    /\ stRoot = PtrTo(1)
    /\ stBase = <<"/", "a">>
    /\ stStack = <<>>
    /\ functions = <<>>
    /\ visits = <<>>
    /\ IdleNaming /\ IdleRequired /\ IdleReflect /\ IdleDoc /\ IdleHandler /\ IdleWalk
    /\ IdlePasses /\ IdleApply

\* Struct(basePath, v): the first call of traverseStruct
StructOfGraph ==
    /\ phase = "traverse"
    /\ entered(stBase, stRoot.addr)
    /\ stStack' = <<[path |-> stBase, addr |-> stRoot.addr, i |-> 1]>>
    /\ phase' = "traversing"
    /\ UNCHANGED <<stRoot, stBase, stHeap, namingVars, requiredVars, reflectVars, docVars,
                   handlerVars, walkVars, passVars, applyVars>>

\* the frame of the innermost call and the field its loop is at
Top == stStack[Len(stStack)]
TopField == stHeap[Top.addr].fields[Top.i]
Descends ==
    /\ Top.i <= Len(stHeap[Top.addr].fields)
    /\ IsExported(TopField.name)
    /\ targetOf(TopField.value) # 0

\* one round of the loop over the fields whose traverseStruct call returns
\* without processing a struct, or that skips an unexported field
TraverseLeaf ==
    /\ phase = "traversing"
    /\ Top.i <= Len(stHeap[Top.addr].fields)
    /\ ~Descends
    /\ stStack' = [stStack EXCEPT ![Len(stStack)].i = @ + 1]
    /\ UNCHANGED <<phase, stRoot, stBase, stHeap, functions, visits, namingVars, requiredVars,
                   reflectVars, docVars, handlerVars, walkVars, passVars, applyVars>>

\* one round of the loop whose traverseStruct call processes a struct
TraverseDescend ==
    /\ phase = "traversing"
    /\ Descends
    /\ Len(stStack) < MaxDepth
    /\ entered(fieldPath(Top.path, TopField.name), targetOf(TopField.value))
    /\ stStack' = Append([stStack EXCEPT ![Len(stStack)].i = @ + 1],
                         [path |-> fieldPath(Top.path, TopField.name),
                          addr |-> targetOf(TopField.value), i |-> 1])
    /\ UNCHANGED <<phase, stRoot, stBase, stHeap, namingVars, requiredVars,
                   reflectVars, docVars, handlerVars, walkVars, passVars, applyVars>>

\* the recursion needs another call and the stack has no room for it: the
\* runtime ends the program
StackOverflow ==
    /\ phase = "traversing"
    /\ Descends
    /\ Len(stStack) >= MaxDepth
    /\ phase' = "stack-overflow"
    /\ UNCHANGED <<stStack, stRoot, stBase, stHeap, functions, visits, namingVars, requiredVars,
                   reflectVars, docVars, handlerVars, walkVars, passVars, applyVars>>

\* the loop over the fields ended: the call returns; Struct returns when the
\* first call does
TraverseReturn ==
    /\ phase = "traversing"
    /\ Top.i > Len(stHeap[Top.addr].fields)
    /\ stStack' = SubSeq(stStack, 1, Len(stStack) - 1)
    /\ phase' = IF Len(stStack) = 1 THEN "struct-done" ELSE phase
    /\ UNCHANGED <<stRoot, stBase, stHeap, functions, visits, namingVars, requiredVars,
                   reflectVars, docVars, handlerVars, walkVars, passVars, applyVars>>

NextTraverse ==
    \/ StructOfGraph
    \/ TraverseLeaf
    \/ TraverseDescend
    \/ StackOverflow
    \/ TraverseReturn

\* a call in progress goes on until it returns or the program ends
SpecTraverse == InitTraverse /\ [][NextTraverse]_vars /\ WF_vars(NextTraverse)

\* ------------------------------------------------------------------------
\* C25
\* ------------------------------------------------------------------------
\* C25: Struct(basePath, v) terminates and returns its endpoint list for every
\* finite object graph, also when a struct reaches itself again through a
\* non-nil pointer or interface field.
C25_StructTerminates == <>(phase = "struct-done")

\* ------------------------------------------------------------------------
\* C26
\* ------------------------------------------------------------------------
\* C26: within one document, endpoints with distinct paths have distinct
\* operation identities (Module + "#" + Name), also for the endpoints Struct
\* discovers when several single-method fields of one parent struct have a
\* method of the same name.
C26_OperationIdsAreUnique ==
    (phase = "doc-done" /\ docErr = NoError) =>
        \A i, j \in DOMAIN docFns :
            docFns[i].path # docFns[j].path =>
                doc.paths[docFns[i].path].post.operationId
                    # doc.paths[docFns[j].path].post.operationId

\* ------------------------------------------------------------------------
\* C27
\* ------------------------------------------------------------------------
\* the nodes of the schema table that hold a definition
TableNodes ==
    { n \in UNION { {schemas[id]} \cup Descendants(schemas[id]) : id \in DOMAIN schemas } :
        n # NilRef /\ n.value # NilSchema }

\* C27: every name in the required list of a node of the schema table is the
\* name of a property of that node: no name of an unexported or ignored field
\* and no name without a property is marked required.
C27_RequiredNamesAreProperties ==
    phase = "reflect" =>
        \A n \in TableNodes :
            \A k \in DOMAIN n.value.required :
                n.value.required[k] \in DOMAIN n.value.properties

\* ------------------------------------------------------------------------
\* C28
\* ------------------------------------------------------------------------
\* C28: marking an error with SetErrCode does not change its classification:
\* errors.Is(SetErrCode(err, code), ErrApplication) holds if and only if
\* errors.Is(err, ErrApplication) holds, so that an application error that
\* carries a code is answered with status 422 and its code.
C28_CodeKeepsClassification ==
    (phase = "serving" /\ exchange # <<>> /\ exchange.outcome.kind = "error"
        /\ exchange.outcome.err.kind = "withCode") =>
            LET marked == exchange.outcome.err
                isApp == errorsIs(marked.err, ErrApplication)
            IN /\ errorsIs(marked, ErrApplication) <=> isApp
               /\ (exchange.response.body.kind = "encoded" /\ isApp) =>
                     /\ exchange.response.status = 422
                     /\ exchange.response.body.code

\* ------------------------------------------------------------------------
\* C29
\* ------------------------------------------------------------------------
\* C29: for every handler configuration with a swagger JSON path and a
\* Swagger UI path, the document the Swagger UI handler shows is the document
\* served at the swagger JSON path: once the served document is built, the
\* build for the UI gives the same document.
C29_UIShowsServedDocument ==
    ( /\ phase \in {"serving", "handler-panic", "handler-failed"}
      /\ hSettings.swaggerPath # <<>> /\ hSettings.swaggerUIPath # <<>>
      /\ Len(handler.reflected) >= 2
      /\ handler.reflected[2].err = NoError /\ ~handler.reflected[2].panic ) =>
        /\ Len(handler.reflected) = 3
        /\ handler.reflected[3] = handler.reflected[2]
        /\ handler.handler
        /\ handler.uiSpec = handler.spec

\* ------------------------------------------------------------------------
\* C30
\* ------------------------------------------------------------------------
\* the property names of the definition built from the struct type t
PropertyNames(t) == {JsonName(f) : f \in PropertyFields(t)}

\* C30: under DefaultSchemaIdentifier two types that differ after stripping
\* pointers never share an identifier, so a reflectSchema call that finds its
\* identifier in the table finds the entry of its own type, and the reference
\* extraction leaves in place of a nested struct names the entry built from
\* that struct type.
C30_SharedEntryIsOfSameType ==
    (phase = "reflect" /\ settings.typeNamer = "default") =>
        /\ \A i, j \in DOMAIN calls :
              (i < j /\ calls[j].known /\ calls[i].id = calls[j].id) =>
                  StripPointers(calls[i].t) = StripPointers(calls[j].t)
        /\ ~settings.skipExtractSubSchemas =>
              \A k \in DOMAIN calls :
                  LET t == calls[k].t IN
                  (~calls[k].known /\ calls[k].err = NoError /\ t.kind = "struct") =>
                      \A f \in NestedStructFields(t) :
                          LET id == DefaultSchemaIdentifier(f.type) IN
                          /\ id \in DOMAIN schemas
                          /\ schemas[id].value # NilSchema
                          /\ DOMAIN schemas[id].value.properties
                                = PropertyNames(StripPointers(f.type))

====
